---- MODULE Spec2Model ----
(***************************************************************************)
(* FernC front end: the lexer (src/src/lex/mod.rs) scanning one source     *)
(* text into a token-tree sequence, lex_source harvesting the error        *)
(* tokens, and the recovery parser (src/src/parse/mod.rs) walking the      *)
(* token trees.  One run of parse_source on one source text, as main.rs    *)
(* drives it; every loop of the code is modelled one iteration per step.   *)
(***************************************************************************)
EXTENDS Naturals, Sequences, FiniteSets, TLC

(***************************************************************************)
(* Bounds of the model.                                                    *)
(***************************************************************************)
\* Longest source text enumerated exhaustively over Alphabet.
MaxLen == 3

\* Longest source text enumerated exhaustively over DelimAlphabet.
MaxDelimLen == 5

\* Longest source text enumerated exhaustively over OpAlphabet.
MaxOpLen == 2

\* Longest text of the one-source map, enumerated over SrcAlphabet.
MaxSrcLen == 3

\* Most sources registered in one map.
MaxSources == 2

\* Parts of the diagnostic that is rendered.
MaxParts == 2

(***************************************************************************)
(* Characters.  A text is a sequence of characters, each a string; a       *)
(* character occupies CharLen bytes of the UTF-8 text, and every offset    *)
(* of the program is a byte offset.                                        *)
(***************************************************************************)
None == "None"

\* A two-byte character (U+00E9).
EAcute == "e_acute"

AsciiLetters ==
    {"a", "b", "c", "d", "e", "f", "g", "h", "i", "j", "k", "l", "m",
     "n", "o", "p", "q", "r", "s", "t", "u", "v", "w", "x", "y", "z",
     "A", "B", "C", "D", "E", "F", "G", "H", "I", "J", "K", "L", "M",
     "N", "O", "P", "Q", "R", "S", "T", "U", "V", "W", "X", "Y", "Z"}

AsciiDigits == {"0", "1", "2", "3", "4", "5", "6", "7", "8", "9"}

AsciiWhitespace == {" ", "\n", "\t", "\r", "\f"}

OpenChars == {"(", "{", "["}

CloseChars == {")", "}", "]"}

\* char::len_utf8
CharLen(c) == IF c = EAcute THEN 2 ELSE 1

RECURSIVE ByteLen(_)
\* str::len: the length of a text in bytes
ByteLen(s) == IF s = <<>> THEN 0 ELSE CharLen(Head(s)) + ByteLen(Tail(s))

\* The byte offset at which the i-th character (from 1) starts.
ByteStart(s, i) == ByteLen(SubSeq(s, 1, i - 1))

\* str::is_char_boundary
IsCharBoundary(s, b) ==
    \/ b = ByteLen(s)
    \/ \E i \in 1..Len(s) : ByteStart(s, i) = b

\* The character that starts at byte offset b (b < ByteLen(s), a boundary).
CharAtByte(s, b) == s[CHOOSE i \in 1..Len(s) : ByteStart(s, i) = b]

(***************************************************************************)
(* The source texts of the model: every text of at most MaxLen characters  *)
(* over Alphabet, and the scenario texts.                                  *)
(***************************************************************************)
Alphabet ==
    {"(", ")", "{", "}", "[", "]", "f", "n", "1", " ", "\n", "/", "$", EAcute}

BoundedTexts == UNION {[1..k -> Alphabet] : k \in 0..MaxLen}

\* Longer texts over the characters that drive the delimiter balancing.
DelimAlphabet == {"(", ")", "{", "]", "f"}

DelimTexts == UNION {[1..k -> DelimAlphabet] : k \in 0..MaxDelimLen}

\* fn f(x: i32) -> i32 { }
TextScenarioFn ==
    <<"f", "n", " ", "f", "(", "x", ":", " ", "i", "3", "2", ")", " ",
      "-", ">", " ", "i", "3", "2", " ", "{", " ", "}">>

\* fn fn f(){}
TextFnFn == <<"f", "n", " ", "f", "n", " ", "f", "(", ")", "{", "}">>

\* fn f(f:n,n:f)->n{}
TextTwoArgs ==
    <<"f", "n", " ", "f", "(", "f", ":", "n", ",", "n", ":", "f", ")",
      "-", ">", "n", "{", "}">>

\* fn f(,){}
TextCommaOnly == <<"f", "n", " ", "f", "(", ",", ")", "{", "}">>

\* fn f(1){}
TextBadArg == <<"f", "n", " ", "f", "(", "1", ")", "{", "}">>

\* fn f(f:n n){}
TextNoComma ==
    <<"f", "n", " ", "f", "(", "f", ":", "n", " ", "n", ")", "{", "}">>

\* fn f()->1 fn
TextBadRet == <<"f", "n", " ", "f", "(", ")", "-", ">", "1", " ", "f", "n">>

\* The first characters of the two-character operators, and their seconds.
OpAlphabet == {"-", ">", "=", "!", "&", "|", "<"}

OpTexts == UNION {[1..k -> OpAlphabet] : k \in 0..MaxOpLen}

\* -&==
TextOps == <<"-", "&", "=", "=">>

\* fn let if while for fnx if1 _f
TextKeywords ==
    <<"f", "n", " ", "l", "e", "t", " ", "i", "f", " ", "w", "h", "i", "l",
      "e", " ", "f", "o", "r", " ", "f", "n", "x", " ", "i", "f", "1", " ",
      "_", "f">>

\* An integer, a comment that holds a delimiter, a blank and an identifier.
TextTrivia == <<"1", "/", "/", "(", "\n", " ", "f">>

\* A function declaration without a block.
TextNoBlock == <<"f", "n", " ", "f", "(", ")">>

\* A comment that holds a delimiter, then a pair with whitespace inside.
TextComment == <<"/", "/", "(", "\n", "{", " ", "}">>

Scenarios ==
    {TextScenarioFn, TextFnFn, TextTwoArgs, TextCommaOnly, TextBadArg,
     TextNoComma, TextBadRet, TextComment, TextOps, TextKeywords, TextTrivia,
     TextNoBlock}

Texts == BoundedTexts \cup DelimTexts \cup OpTexts \cup Scenarios

(***************************************************************************)
(* Spans, tokens and token trees (src/src/source_map.rs, lex/token.rs).    *)
(***************************************************************************)
\* Source::span: both ends through pos_from_byte, then Span::new.
Span(start, end) == [start |-> start, end |-> end]

\* Source::span_with_len
span_with_len(start, len) == Span(start, start + len)

\* ParenType::new_from_char
ParenType_new_from_char(c) ==
    CASE c \in {"(", ")"} -> "Paren"
      [] c \in {"{", "}"} -> "Bracket"
      [] c \in {"[", "]"} -> "Square"

\* TokenType: a tag, and for Error the TokenErrorTy it carries.
Ty(tag) == <<tag>>

TyError(err) == <<"Error", err>>

IllegalChar == <<"IllegalChar">>

UnmatchedOpenParen == <<"UnmatchedOpenParen">>

UnmatchedCloseParen == <<"UnmatchedCloseParen">>

\* TokenErrorTy::MismatchedParenTy carries a ParenType.
MismatchedParenTy(paren_ty) == <<"MismatchedParenTy", [paren_ty |-> paren_ty]>>

IsErrorTy(ty) == ty[1] = "Error"

\* TokenTree::Leaf(Token::new(ty, span))
Leaf(ty, span) == [kind |-> "Leaf", ty |-> ty, span |-> span]

\* Faulty variant: the node loses its children.
TokenTreeNode_childless(ty, left, right, children) ==
    [kind |-> "Node", paren_ty |-> ty, left |-> left, right |-> right,
     children |-> <<>>]

\* TokenTree::Node(TokenTreeNode::new(ty, left, right, children))
TokenTreeNode(ty, left, right, children) ==
    [kind |-> "Node", paren_ty |-> ty, left |-> left, right |-> right,
     children |-> children]

(***************************************************************************)
(* SourceMap, Source, SourcePos and Span (src/src/source_map.rs).  A call  *)
(* that hits an assert! or an index out of range panics.                   *)
(***************************************************************************)
Panicked == [tag |-> "panic"]

Returned(v) == [tag |-> "returned", value |-> v]

RECURSIVE match_indices(_, _, _)
\* str::match_indices(c): the byte offsets of the occurrences of c in s,
\* ascending; at is the byte offset s starts at.
match_indices(s, c, at) ==
    IF s = <<>> THEN <<>>
    ELSE (IF Head(s) = c THEN <<at>> ELSE <<>>)
         \o match_indices(Tail(s), c, at + CharLen(Head(s)))

\* Faulty variant: the last line is never terminated.
compute_newlines_unterminated(t) == match_indices(t, "\n", 0)

\* Source::compute_newlines
compute_newlines(t) ==
    LET newlines == match_indices(t, "\n", 0) IN
    IF t = <<>> \/ t[Len(t)] # "\n"
    THEN Append(newlines, ByteLen(t))
    ELSE newlines

\* Source::new
Source_new(id, filename, t) ==
    [id |-> id, filename |-> filename, text |-> t,
     newlines |-> compute_newlines(t)]

\* Faulty variant: the new source takes the place of the first one.
add_source_in_front(srcs, filename, t) ==
    [sources |-> <<Source_new(Len(srcs), filename, t)>> \o srcs,
     id |-> Len(srcs)]

\* SourceMap::add_source: the sources after the call, and the id returned.
add_source(srcs, filename, t) ==
    [sources |-> Append(srcs, Source_new(Len(srcs), filename, t)),
     id |-> Len(srcs)]

\* SourceMap::get_source: `&self.sources[id.0]`
get_source(srcs, id) ==
    IF id + 1 \in DOMAIN srcs THEN Returned(srcs[id + 1]) ELSE Panicked

\* SourcePos::new
SourcePos_new(src_id, byte) == [src_id |-> src_id, byte |-> byte]

\* Source::pos_from_byte
pos_from_byte(src, byte) ==
    IF IsCharBoundary(src.text, byte)
    THEN Returned(SourcePos_new(src.id, byte))
    ELSE Panicked

\* Faulty variant: the two asserts are missing.
Span_new_unchecked(start, end) == Returned([start |-> start, end |-> end])

\* Span::new
Span_new(start, end) ==
    IF start.src_id # end.src_id \/ start.byte > end.byte
    THEN Panicked
    ELSE Returned([start |-> start, end |-> end])

\* Source::span
Source_span(src, start, end) ==
    LET start_pos == pos_from_byte(src, start)
        end_pos == pos_from_byte(src, end)
    IN IF start_pos = Panicked \/ end_pos = Panicked THEN Panicked
       ELSE Span_new(start_pos.value, end_pos.value)

\* slice::binary_search on a strictly ascending list: Ok(i) with the index
\* (from 0) of x, or Err(i) with the index x would be inserted at.
binary_search(list, x) ==
    IF \E k \in DOMAIN list : list[k] = x
    THEN [ok |-> TRUE, i |-> (CHOOSE k \in DOMAIN list : list[k] = x) - 1]
    ELSE [ok |-> FALSE, i |-> Cardinality({k \in DOMAIN list : list[k] < x})]

\* Faulty variant: a position on a newline belongs to the line it starts.
line_of_next_line(src, p) ==
    IF p.src_id # src.id THEN Panicked
    ELSE LET found == binary_search(src.newlines, p.byte) IN
         Returned(IF found.ok THEN found.i + 2 ELSE found.i + 1)

\* Source::line_of
line_of(src, p) ==
    IF p.src_id # src.id THEN Panicked
    ELSE LET found == binary_search(src.newlines, p.byte) IN
         Returned(IF found.ok THEN found.i + 1 ELSE found.i + 1)

\* Faulty variant: a line starts on the newline that ends the line before.
first_byte_of_line_on_newline(src, line) ==
    IF line - 1 = 0 THEN Returned(0)
    ELSE IF line - 1 \in DOMAIN src.newlines
    THEN Returned(src.newlines[line - 1])
    ELSE Panicked

\* Source::first_byte_of_line (line >= 1): `self.newlines[line - 1] + 1`
\* after `let line = line - 1`.
first_byte_of_line(src, line) ==
    IF line - 1 = 0 THEN Returned(0)
    ELSE IF line - 1 \in DOMAIN src.newlines
    THEN Returned(src.newlines[line - 1] + 1)
    ELSE Panicked

\* Source::col_of
col_of(src, p) ==
    LET line == line_of(src, p) IN
    IF line = Panicked THEN Panicked
    ELSE LET start_byte == first_byte_of_line(src, line.value) IN
         IF start_byte = Panicked THEN Panicked
         ELSE Returned(p.byte - start_byte.value + 1)

\* Faulty variant: the span keeps the newline that ends the line.
span_of_line_with_newline(src, line) ==
    LET start == first_byte_of_line(src, line)
        next == first_byte_of_line(src, line + 1)
    IN IF start = Panicked \/ next = Panicked THEN Panicked
       ELSE Source_span(src, start.value, next.value)

\* Source::span_of_line
span_of_line(src, line) ==
    LET start == first_byte_of_line(src, line)
        next == first_byte_of_line(src, line + 1)
    IN IF start = Panicked \/ next = Panicked THEN Panicked
       ELSE Source_span(src, start.value, next.value - 1)

\* Source::text_of_span, `&self.text[span.byte_range()]`, of the span of a
\* token: the characters of t that start in the byte range.
text_of_span(t, span) ==
    LET inside == {i \in 1..Len(t) :
                     span.start <= ByteStart(t, i) /\ ByteStart(t, i) < span.end}
    IN [k \in 1..Cardinality(inside) |->
           t[CHOOSE i \in inside :
               Cardinality({j \in inside : j < i}) = k - 1]]

(***************************************************************************)
(* Diagnostics (src/src/diagnostics/mod.rs) and their rendering            *)
(* (src/src/diagnostics/render.rs).  A written line is the record of what  *)
(* its format string is filled with.                                       *)
(***************************************************************************)
\* Diagnostic::new
Diagnostic_new(msg) == [msg |-> msg, parts |-> <<>>]

\* Diagnostic::add_part
add_part(d, span, help) ==
    [d EXCEPT !.parts = Append(@, [span |-> span, help |-> help])]

\* The key of `parts.sort_by_key(|p| p.span.start().byte())`.
sort_key(part) == part.span.start.byte

\* Faulty variant: a part goes in front of the parts of an equal key.
insert_sorted_before_ties(sorted, part) ==
    LET before == {k \in DOMAIN sorted : sort_key(sorted[k]) < sort_key(part)}
        n == Cardinality(before)
    IN SubSeq(sorted, 1, n) \o <<part>> \o SubSeq(sorted, n + 1, Len(sorted))

\* One step of the stable sort: part, which came after every part of
\* sorted, goes behind the parts whose key is not greater than its own.
insert_sorted(sorted, part) ==
    LET before == {k \in DOMAIN sorted : sort_key(sorted[k]) <= sort_key(part)}
        n == Cardinality(before)
    IN SubSeq(sorted, 1, n) \o <<part>> \o SubSeq(sorted, n + 1, Len(sorted))

RECURSIVE sort_by_key(_)
\* slice::sort_by_key, a stable sort, on the Vec of references to the parts
sort_by_key(parts) ==
    IF parts = <<>> THEN <<>>
    ELSE insert_sorted(sort_by_key(SubSeq(parts, 1, Len(parts) - 1)),
                       parts[Len(parts)])

\* The DiagnosticRenderLine variants.
DRL_SourcePos(p) == [drl |-> "SourcePos", pos |-> p]

DRL_Padding == [drl |-> "Padding"]

DRL_CodeLine(source, line) == [drl |-> "CodeLine", source |-> source, line |-> line]

DRL_Highlight(span, message) ==
    [drl |-> "Highlight", span |-> span, message |-> message]

\* DiagnosticRenderLine::is_padding
is_padding(l) == l.drl = "Padding"

\* Faulty variant: no padding is dropped.
can_collapse_padding_never(l) == FALSE

\* DiagnosticRenderLine::can_collapse_padding
can_collapse_padding(l) == l.drl = "Highlight"

RECURSIVE ilog10(_)
\* usize::ilog10, of a positive number
ilog10(n) == IF n < 10 THEN 0 ELSE 1 + ilog10(n \div 10)

\* DiagnosticRenderLine::gutter_width
gutter_width(l) == IF l.drl = "CodeLine" THEN ilog10(l.line) + 1 ELSE 0

RECURSIVE code_lines(_, _, _, _)
\* render, lines 32-42: the code lines of start_line..=end_line, from line
\* on, with the highlight behind the start line.
code_lines(source, part, line, end_line) ==
    IF line > end_line THEN <<>>
    ELSE <<DRL_CodeLine(source, line)>>
         \o (IF line = line_of(source, part.span.start).value
             THEN <<DRL_Highlight(part.span, part.help)>>
             ELSE <<>>)
         \o code_lines(source, part, line + 1, end_line)

\* render, lines 23-45: the lines of one part, or the failed assertion.
part_lines(srcs, part) ==
    LET source == get_source(srcs, part.span.start.src_id) IN
    IF source = Panicked THEN Panicked
    ELSE LET start_line == line_of(source.value, part.span.start)
             end_line == line_of(source.value, part.span.end)
         IN IF start_line = Panicked \/ end_line = Panicked THEN Panicked
            ELSE IF start_line.value # end_line.value THEN Panicked
            ELSE Returned(<<DRL_SourcePos(part.span.start), DRL_Padding>>
                          \o code_lines(source.value, part, start_line.value,
                                        end_line.value)
                          \o <<DRL_Padding>>)

RECURSIVE assemble(_, _)
\* render, lines 22-46: the loop over the sorted parts.
assemble(srcs, parts) ==
    IF parts = <<>> THEN Returned(<<>>)
    ELSE LET first == part_lines(srcs, Head(parts)) IN
         IF first = Panicked THEN Panicked
         ELSE LET rest == assemble(srcs, Tail(parts)) IN
              IF rest = Panicked THEN Panicked
              ELSE Returned(first.value \o rest.value)

\* render, lines 48-58: a padding behind a highlight is dropped.
collapse(all_lines) ==
    LET kept == {i \in DOMAIN all_lines :
                   ~(is_padding(all_lines[i]) /\ i > 1
                     /\ can_collapse_padding(all_lines[i - 1]))}
    IN [k \in 1..Cardinality(kept) |->
           all_lines[CHOOSE i \in kept :
                       Cardinality({j \in kept : j < i}) = k - 1]]

\* Faulty variant: the width of the first line that has one.
max_gutter_width_of_first(lines) ==
    LET wide == {i \in DOMAIN lines : gutter_width(lines[i]) > 0} IN
    IF wide = {} THEN 0
    ELSE gutter_width(lines[CHOOSE i \in wide : \A j \in wide : i <= j])

\* render, line 63: `.map(DRL::gutter_width).max().unwrap_or(0)`
max_gutter_width(lines) ==
    IF lines = <<>> THEN 0
    ELSE CHOOSE w \in {gutter_width(lines[i]) : i \in DOMAIN lines} :
           \A i \in DOMAIN lines : gutter_width(lines[i]) <= w

\* DiagWriter::write_error
write_error(msg) == Returned([written |-> "error", msg |-> msg])

\* DiagWriter::write_source_pos
write_source_pos(p, source, gw) ==
    LET line == line_of(source, p)
        col == col_of(source, p)
    IN IF line = Panicked \/ col = Panicked THEN Panicked
       ELSE Returned([written |-> "source_pos", gw |-> gw,
                      filename |-> source.filename,
                      line |-> line.value, col |-> col.value])

\* DiagWriter::write_padding
write_padding(gw) == Returned([written |-> "padding", gw |-> gw])

\* DiagWriter::write_code
write_code(source, line, gw) ==
    LET line_span == span_of_line(source, line) IN
    IF line_span = Panicked THEN Panicked
    ELSE Returned([written |-> "code", gw |-> gw, line |-> line,
                   text |-> text_of_span(source.text,
                                         Span(line_span.value.start.byte,
                                              line_span.value.end.byte))])

\* Faulty variant: one caret for every byte of the span.
write_highlight_bytes(source, span, gw, msg) ==
    LET start_line == line_of(source, span.start)
        end_line == line_of(source, span.end)
        col == col_of(source, span.start)
    IN IF start_line = Panicked \/ end_line = Panicked \/ col = Panicked
       THEN Panicked
       ELSE IF start_line.value # end_line.value THEN Panicked
       ELSE Returned([written |-> "highlight", gw |-> gw,
                      offset |-> col.value - 1,
                      carets |-> span.end.byte - span.start.byte,
                      msg |-> msg])

\* DiagWriter::write_highlight
write_highlight(source, span, gw, msg) ==
    LET start_line == line_of(source, span.start)
        end_line == line_of(source, span.end)
        col == col_of(source, span.start)
    IN IF start_line = Panicked \/ end_line = Panicked \/ col = Panicked
       THEN Panicked
       ELSE IF start_line.value # end_line.value THEN Panicked
       ELSE Returned([written |-> "highlight", gw |-> gw,
                      offset |-> col.value - 1,
                      carets |-> Len(text_of_span(source.text,
                                                  Span(span.start.byte,
                                                       span.end.byte))),
                      msg |-> msg])

\* render, lines 66-77: the match on one line.
write_line(srcs, l, gw) ==
    CASE l.drl = "SourcePos" ->
           LET source == get_source(srcs, l.pos.src_id) IN
           IF source = Panicked THEN Panicked
           ELSE write_source_pos(l.pos, source.value, gw)
      [] l.drl = "Padding" -> write_padding(gw)
      [] l.drl = "CodeLine" -> write_code(l.source, l.line, gw)
      [] l.drl = "Highlight" ->
           LET source == get_source(srcs, l.span.start.src_id) IN
           IF source = Panicked THEN Panicked
           ELSE write_highlight(source.value, l.span, gw, l.message)

RECURSIVE write_lines(_, _, _, _)
\* render, lines 65-78: the loop over the lines; out is what the writer
\* holds so far.
write_lines(srcs, lines, gw, out) ==
    IF lines = <<>> THEN [result |-> Returned("Ok"), out |-> out]
    ELSE LET line == write_line(srcs, Head(lines), gw) IN
         IF line = Panicked THEN [result |-> Panicked, out |-> out]
         ELSE write_lines(srcs, Tail(lines), gw, Append(out, line.value))

\* render::render, as Diagnostic::render calls it on a fresh writer: the
\* outcome, what the writer holds, and the diagnostic behind `&Diagnostic`.
render(srcs, d) ==
    LET parts == sort_by_key(d.parts)
        all_lines == assemble(srcs, parts)
    IN IF all_lines = Panicked
       THEN [diag |-> d, result |-> Panicked, out |-> <<>>]
       ELSE LET lines == collapse(all_lines.value)
                written == write_lines(srcs, lines, max_gutter_width(lines),
                                       <<write_error(d.msg).value>>)
            IN [diag |-> d, result |-> written.result, out |-> written.out]

(***************************************************************************)
(* State.                                                                  *)
(***************************************************************************)
VARIABLES
    text,         \* Source::text of the one registered source
    cursor,       \* lex::Cursor: byte_offset, span_offset, span_len
    paren_stack,  \* get_tokens: the stack of (ParenType, Span, Vec<TokenTree>)
    tokens,       \* get_tokens: the list being collected; then the output
    errors,       \* lex_source: the Vec<Diagnostic> find_errors fills
    lex_result,   \* what lex_source returned: "none" before, then "Ok" | "Err"
    pos,          \* parse::Cursor::pos of parse_source's cursor over the output
    args_cursor,  \* parse_fn_args: its cursor over the parenthesis node's children
    frame,        \* parse_fn: the results of its productions so far
    decl,         \* the PResult parse_decl last computed or returned
    declarations, \* parse_file: the declarations pushed
    iter_starts,  \* parse_file: the cursor position each loop iteration began at
    diagnostics,  \* parse_source: the Vec<Diagnostic> handed to the productions
    sync,         \* the sync_to call in progress
    result,       \* what parse_source returned
    pc,           \* the position of the run in the code
    sources,      \* SourceMap::sources
    calls,        \* the add_source calls made: filename, text, the id returned
    made,         \* the last call on the source map: its inputs and outcome
    diag,         \* the Diagnostic being built
    rendered      \* the last Diagnostic::render call: its input and outcome

lexvars == <<cursor, paren_stack, tokens>>

parsevars ==
    <<pos, args_cursor, frame, decl, declarations, iter_starts, diagnostics,
      sync, result>>

mapvars == <<sources, calls, made>>

rendervars == <<diag, rendered>>

vars == <<text, lexvars, errors, lex_result, parsevars, pc, mapvars, rendervars>>

(***************************************************************************)
(* lex::Cursor                                                             *)
(***************************************************************************)
\* Cursor::peek
Peek(cur) ==
    IF cur.byte_offset < ByteLen(text)
    THEN CharAtByte(text, cur.byte_offset)
    ELSE None

\* Cursor::pop: nothing moves when there is no character left.
Pop(cur) ==
    LET c == Peek(cur) IN
    IF c = None THEN cur
    ELSE [cur EXCEPT !.span_len = @ + CharLen(c),
                     !.byte_offset = @ + CharLen(c)]

\* Cursor::popped_text
PoppedText(cur) ==
    LET first == CHOOSE i \in 1..(Len(text) + 1) :
                     ByteStart(text, i) = cur.span_offset
        last == CHOOSE i \in 0..Len(text) :
                     ByteStart(text, i + 1) = cur.span_offset + cur.span_len
    IN SubSeq(text, first, last)

\* Faulty variant: the span starts where the cursor stands.
PoppedSpan_at_cursor(cur) == span_with_len(cur.byte_offset, cur.span_len)

\* Faulty variant: the span reaches back to the start of the text.
PoppedSpan_from_start(cur) == span_with_len(0, cur.span_offset + cur.span_len)

\* Cursor::popped_as_span: the span it returns.
PoppedSpan(cur) == span_with_len(cur.span_offset, cur.span_len)

\* Faulty variant: the pending span is kept.
Ignore_keeping(cur) == cur

\* Faulty variant: the pending span is emptied where it began.
Ignore_offset_kept(cur) == [cur EXCEPT !.span_len = 0]

\* Cursor::ignore, and the reset at the end of popped_as_span.
Ignore(cur) == [cur EXCEPT !.span_offset = cur.byte_offset, !.span_len = 0]

(***************************************************************************)
(* Lexer::next_leaf_ty, the leaves that need no loop.                      *)
(***************************************************************************)
char_can_start_ident(c) == c \in AsciiLetters \/ c = "_"

char_can_continue_ident(c) == char_can_start_ident(c) \/ c \in AsciiDigits

\* Faulty variant: a run that begins with `fn` is the keyword.
ident_token_ty_prefix(ident) ==
    IF Len(ident) >= 2 /\ SubSeq(ident, 1, 2) = <<"f", "n">>
    THEN Ty("Fn")
    ELSE Ty("Ident")

ident_token_ty(ident) ==
    CASE ident = <<"f", "n">> -> Ty("Fn")
      [] ident = <<"l", "e", "t">> -> Ty("Let")
      [] ident = <<"i", "f">> -> Ty("If")
      [] ident = <<"w", "h", "i", "l", "e">> -> Ty("While")
      [] ident = <<"f", "o", "r">> -> Ty("For")
      [] OTHER -> Ty("Ident")

\* Faulty variant: the illegal character takes the next one with it.
illegal_char_arm_skipping == [ty |-> TyError(IllegalChar), two |-> TRUE]

\* `_ => TokenType::Error(TokenErrorTy::IllegalChar)`
illegal_char_arm == [ty |-> TyError(IllegalChar), two |-> FALSE]

\* Faulty variant: no arm looks ahead.
SymbolTy_no_lookahead(c, nxt) ==
    [ty |-> CASE c = "-" -> Ty("Minus")
              [] c = "!" -> Ty("Not")
              [] c = "=" -> Ty("Eq")
              [] c = "<" -> Ty("Lt")
              [] c = ">" -> Ty("Gt")
              [] OTHER -> TyError(IllegalChar),
     two |-> FALSE]

\* The symbol arms of next_leaf_ty: the type, and whether the arm pops the
\* character it looked ahead at.
SymbolTy(c, nxt) ==
    CASE c = "+" -> [ty |-> Ty("Plus"), two |-> FALSE]
      [] c = "-" /\ nxt = ">" -> [ty |-> Ty("RArrow"), two |-> TRUE]
      [] c = "-" /\ nxt # ">" -> [ty |-> Ty("Minus"), two |-> FALSE]
      [] c = "*" -> [ty |-> Ty("Mul"), two |-> FALSE]
      [] c = "/" -> [ty |-> Ty("Div"), two |-> FALSE]
      [] c = "!" /\ nxt = "=" -> [ty |-> Ty("NotEq"), two |-> TRUE]
      [] c = "!" /\ nxt # "=" -> [ty |-> Ty("Not"), two |-> FALSE]
      [] c = "|" /\ nxt = "|" -> [ty |-> Ty("OrOr"), two |-> TRUE]
      [] c = "&" /\ nxt = "&" -> [ty |-> Ty("AndAnd"), two |-> TRUE]
      [] c = "=" /\ nxt = "=" -> [ty |-> Ty("EqEq"), two |-> TRUE]
      [] c = "=" /\ nxt # "=" -> [ty |-> Ty("Eq"), two |-> FALSE]
      [] c = "<" /\ nxt = "=" -> [ty |-> Ty("Lte"), two |-> TRUE]
      [] c = "<" /\ nxt # "=" -> [ty |-> Ty("Lt"), two |-> FALSE]
      [] c = ">" /\ nxt = "=" -> [ty |-> Ty("Gte"), two |-> TRUE]
      [] c = ">" /\ nxt # "=" -> [ty |-> Ty("Gt"), two |-> FALSE]
      [] c = ";" -> [ty |-> Ty("Semicolon"), two |-> FALSE]
      [] c = ":" -> [ty |-> Ty("Colon"), two |-> FALSE]
      [] c = "," -> [ty |-> Ty("Comma"), two |-> FALSE]
      [] OTHER -> illegal_char_arm

\* The arm of next_leaf_ty a character, popped with nxt next, is matched by.
LeafArm(c, nxt) ==
    CASE c \in AsciiWhitespace -> "whitespace"
      [] c \notin AsciiWhitespace /\ c = "/" /\ nxt = "/" -> "comment"
      [] c \in AsciiDigits -> "digits"
      [] char_can_start_ident(c) -> "ident"
      [] OTHER -> "symbol"

(***************************************************************************)
(* Lexer::get_tokens, the delimiter balancing.                             *)
(***************************************************************************)
\* Faulty variant: the error leaf replaces the list instead of joining it.
UnmatchedClose_dropping(toks, span) ==
    <<Leaf(TyError(UnmatchedCloseParen), span)>>

\* lines 47-53: a closer with nothing on the stack becomes an error leaf.
UnmatchedClose(toks, span) ==
    Append(toks, Leaf(TyError(UnmatchedCloseParen), span))

\* Faulty variant: a mismatch goes unrecorded.
NodeChildren_silent(left_ty, right_ty, right_span, toks) == toks

\* lines 58-66: the children of the node a closer builds.
NodeChildren(left_ty, right_ty, right_span, toks) ==
    IF left_ty # right_ty
    THEN Append(toks, Leaf(TyError(MismatchedParenTy(right_ty)), right_span))
    ELSE toks

\* Faulty variant: the node takes the closer's kind.
CloseNode_closer_kind(opener, right_ty, right_span, toks) ==
    Append(opener.tokens,
           TokenTreeNode(right_ty, opener.span, right_span,
                         NodeChildren(opener.ty, right_ty, right_span, toks)))

\* lines 68-73: the enclosing list with the node appended.
CloseNode(opener, right_ty, right_span, toks) ==
    Append(opener.tokens,
           TokenTreeNode(opener.ty, opener.span, right_span,
                         NodeChildren(opener.ty, right_ty, right_span, toks)))

\* Faulty variant: the error leaf is pushed after the pending tokens.
Splice_leaf_last(opener, toks) ==
    Append(opener.tokens \o toks, Leaf(TyError(UnmatchedOpenParen), opener.span))

\* lines 89-96: one iteration of the loop over the openers left on the stack.
Splice(opener, toks) ==
    Append(opener.tokens, Leaf(TyError(UnmatchedOpenParen), opener.span)) \o toks

(***************************************************************************)
(* lex_source: the errors of the tree, harvested after the scan.           *)
(***************************************************************************)
\* diagnostics::specifics::lex::illegal_char: the message names the text of
\* the span, and the one part is the span with an empty annotation.
illegal_char(span) ==
    [template |-> "Illegal character", parts |-> <<[span |-> span, help |-> ""]>>]

RECURSIVE find_errors(_, _)
\* find_errors: st.errors is the Vec it pushes to; st.panicked, that it
\* reached one of the todo!() arms, which abort the process.
find_errors(toks, st) ==
    IF toks = <<>> \/ st.panicked THEN st
    ELSE LET t == Head(toks)
             st1 == IF t.kind = "Leaf"
                    THEN IF ~IsErrorTy(t.ty) THEN st
                         ELSE IF t.ty = TyError(IllegalChar)
                         THEN [st EXCEPT !.errors = Append(@, illegal_char(t.span))]
                         ELSE [st EXCEPT !.panicked = TRUE]
                    ELSE find_errors(t.children, st)
         IN find_errors(Tail(toks), st1)

(***************************************************************************)
(* parse::Cursor over a slice of sibling token trees: [tokens, pos].       *)
(***************************************************************************)
\* TokenTree::ty: a leaf has its token's type, a node the type of its
\* delimiter pair.
TreeTy(tree) ==
    IF tree.kind = "Leaf" THEN tree.ty
    ELSE CASE tree.paren_ty = "Paren" -> Ty("Parens")
           [] tree.paren_ty = "Bracket" -> Ty("CurlyBrackets")
           [] tree.paren_ty = "Square" -> Ty("SquareBrackets")

\* TokenTree::span: a leaf's span; a node's, from its opener to its closer.
TreeSpan(tree) ==
    IF tree.kind = "Leaf" THEN tree.span
    ELSE Span(tree.left.start, tree.right.end)

\* Cursor::is_eof
is_eof(c) == c.pos >= Len(c.tokens)

\* Cursor::peek
peek(c) == c.tokens[c.pos + 1]

\* Cursor::peek_is
peek_is(c, ty) == ~is_eof(c) /\ TreeTy(peek(c)) = ty

\* Faulty variant: the cursor moves two trees on.
pop_skipping(c) == [c EXCEPT !.pos = @ + 2]

\* Cursor::pop: the cursor after it (its assertion holds wherever it is used).
pop(c) == [c EXCEPT !.pos = @ + 1]

\* PResult
Ok(v) == [status |-> "Ok", value |-> v]

Err(sync_status) == [status |-> sync_status]

Pending == [status |-> "none"]

\* Cursor::pop_expect: the PResult, and the cursor after the call.
pop_expect(c, ty) ==
    IF peek_is(c, ty)
    THEN [res |-> Ok(peek(c)), cur |-> pop(c)]
    ELSE [res |-> Err("Unsynced"), cur |-> c]

\* Cursor::pop_if: the Option, and the cursor after the call.
pop_if(c, ty) ==
    IF peek_is(c, ty)
    THEN [some |-> TRUE, tree |-> peek(c), cur |-> pop(c)]
    ELSE [some |-> FALSE, cur |-> c]

\* The condition of the loop of Cursor::sync_to.
sync_to_test(c, sync_tokens) == ~is_eof(c) /\ TreeTy(peek(c)) \notin sync_tokens

\* The body of the loop of Cursor::sync_to: it is empty.
sync_to_body(c) == c

\* parse_ty: the PResult, and the cursor after the call.
parse_ty(c) ==
    LET name == pop_expect(c, Ty("Ident")) IN
    IF name.res.status = "Ok"
    THEN [res |-> Ok([name_ident |-> TreeSpan(name.res.value)]), cur |-> name.cur]
    ELSE [res |-> Err("Unsynced"), cur |-> name.cur]

\* parse_fn_arg: the PResult, and the cursor after the call.
parse_fn_arg(c) ==
    LET name == pop_expect(c, Ty("Ident")) IN
    IF name.res.status # "Ok" THEN [res |-> Err("Unsynced"), cur |-> name.cur]
    ELSE LET colon == pop_expect(name.cur, Ty("Colon")) IN
    IF colon.res.status # "Ok" THEN [res |-> Err("Unsynced"), cur |-> colon.cur]
    ELSE LET ty == parse_ty(colon.cur) IN
    IF ty.res.status # "Ok" THEN [res |-> Err("Unsynced"), cur |-> ty.cur]
    ELSE [res |-> Ok([name |-> TreeSpan(name.res.value),
                      colon |-> TreeSpan(colon.res.value),
                      ty |-> ty.res.value]),
          cur |-> ty.cur]

\* parse_fn_return_ty: the PResult, and the cursor after the call.
parse_fn_return_ty(c) ==
    LET r_arrow == pop_if(c, Ty("RArrow")) IN
    IF ~r_arrow.some THEN [res |-> Ok(<<>>), cur |-> c]
    ELSE LET ty == parse_ty(r_arrow.cur) IN
    IF ty.res.status # "Ok" THEN [res |-> Err("Unsynced"), cur |-> ty.cur]
    ELSE [res |-> Ok(<<[r_arrow |-> TreeSpan(r_arrow.tree), ty |-> ty.res.value]>>),
          cur |-> ty.cur]

\* parse_block: the result of pop_expect is dropped and the block is Ok.
parse_block(c) ==
    [res |-> Ok([statements |-> <<>>, return_expr |-> <<>>]),
     cur |-> pop_expect(c, Ty("CurlyBrackets")).cur]

\* The end of parse_fn: `?` on body, name_ident, args, return_ty, in this order.
parse_fn_result(fr) ==
    IF \/ fr.body.status # "Ok"
       \/ fr.name_ident.status # "Ok"
       \/ fr.args.status # "Ok"
       \/ fr.return_ty.status # "Ok"
    THEN Err("Unsynced")
    ELSE Ok([fn_kw |-> fr.fn_kw,
             name_ident |-> TreeSpan(fr.name_ident.value),
             args |-> fr.args.value,
             return_ty |-> fr.return_ty.value,
             body |-> fr.body.value])

\* parse_source's match on what parse_file returned.
parse_source_result(parsed, diags) ==
    IF parsed.status = "Ok" /\ diags = <<>>
    THEN [tag |-> "Ok", file |-> parsed.value]
    ELSE [tag |-> "Err", diagnostics |-> diags]

\* The cursor of parse_source over the lexer's output.
Outer == [tokens |-> tokens, pos |-> pos]

NoCursor == [tokens |-> <<>>, pos |-> 0]

NoFrame ==
    [fn_kw |-> Span(0, 0), name_ident |-> Pending, args |-> Pending,
     return_ty |-> Pending, body |-> Pending]

NoSync == [on |-> "none", sync_tokens |-> {}, from |-> 0, ret |-> "none"]

NoCall == [op |-> "none"]

NoDiagnostic == [msg |-> "", parts |-> <<>>]

NoRender == [diag |-> NoDiagnostic, result |-> [tag |-> "none"], out |-> <<>>]

\* main: sm.add_source_from_file("examples/simple.fern")
MainFile == "examples/simple.fern"

(***************************************************************************)
(* Initial state: parse_source is entered with a registered text.          *)
(***************************************************************************)
Init ==
    /\ text \in Texts
    /\ sources = add_source(<<>>, MainFile, text).sources
    /\ calls = <<[filename |-> MainFile, text |-> text, id |-> 0]>>
    /\ made = NoCall
    /\ diag = NoDiagnostic
    /\ rendered = NoRender
    /\ cursor = [byte_offset |-> 0, span_offset |-> 0, span_len |-> 0]
    /\ paren_stack = <<>>
    /\ tokens = <<>>
    /\ errors = <<>>
    /\ lex_result = "none"
    /\ pos = 0
    /\ args_cursor = NoCursor
    /\ frame = NoFrame
    /\ decl = Pending
    /\ declarations = <<>>
    /\ iter_starts = <<>>
    /\ diagnostics = <<>>
    /\ sync = NoSync
    /\ result = [tag |-> "none"]
    /\ pc = "scan"

(***************************************************************************)
(* get_tokens: one iteration of `while let Some(next) = cursor.pop()`.     *)
(***************************************************************************)
\* The loop ends: no character is left.
LexEnd ==
    /\ pc = "scan"
    /\ Peek(cursor) = None
    /\ pc' = "unwind"
    /\ UNCHANGED <<mapvars, rendervars, text, cursor, paren_stack, tokens, errors, lex_result, parsevars>>

\* '(' | '{' | '['
LexOpen ==
    /\ pc = "scan"
    /\ Peek(cursor) \in OpenChars
    /\ LET cur == Pop(cursor) IN
        /\ paren_stack' = Append(paren_stack,
                                 [ty |-> ParenType_new_from_char(Peek(cursor)),
                                  span |-> PoppedSpan(cur),
                                  tokens |-> tokens])
        /\ tokens' = <<>>
        /\ cursor' = Ignore(cur)
    /\ UNCHANGED <<mapvars, rendervars, text, pc, errors, lex_result, parsevars>>

\* ')' | '}' | ']' with an empty stack
LexCloseUnmatched ==
    /\ pc = "scan"
    /\ Peek(cursor) \in CloseChars
    /\ paren_stack = <<>>
    /\ LET cur == Pop(cursor) IN
        /\ tokens' = UnmatchedClose(tokens, PoppedSpan(cur))
        /\ cursor' = Ignore(cur)
    /\ UNCHANGED <<mapvars, rendervars, text, paren_stack, pc, errors, lex_result, parsevars>>

\* ')' | '}' | ']' with an opener on the stack
LexClose ==
    /\ pc = "scan"
    /\ Peek(cursor) \in CloseChars
    /\ paren_stack # <<>>
    /\ LET cur == Pop(cursor)
           opener == paren_stack[Len(paren_stack)]
       IN
        /\ tokens' = CloseNode(opener, ParenType_new_from_char(Peek(cursor)),
                               PoppedSpan(cur), tokens)
        /\ paren_stack' = SubSeq(paren_stack, 1, Len(paren_stack) - 1)
        /\ cursor' = Ignore(cur)
    /\ UNCHANGED <<mapvars, rendervars, text, pc, errors, lex_result, parsevars>>

\* next_leaf_ty: whitespace is ignored.
LexWhitespace ==
    /\ pc = "scan"
    /\ Peek(cursor) \notin OpenChars \cup CloseChars \cup {None}
    /\ LeafArm(Peek(cursor), Peek(Pop(cursor))) = "whitespace"
    /\ cursor' = Ignore(Pop(cursor))
    /\ UNCHANGED <<mapvars, rendervars, text, paren_stack, tokens, pc, errors, lex_result, parsevars>>

\* next_leaf_ty: '/' if cursor.peek_is('/') enters the comment loop.
LexCommentStart ==
    /\ pc = "scan"
    /\ Peek(cursor) \notin OpenChars \cup CloseChars \cup {None}
    /\ LeafArm(Peek(cursor), Peek(Pop(cursor))) = "comment"
    /\ cursor' = Pop(cursor)
    /\ pc' = "comment_test"
    /\ UNCHANGED <<mapvars, rendervars, text, paren_stack, tokens, errors, lex_result, parsevars>>

\* `while !cursor.peek_is('\n')`: the test; when it fails, cursor.ignore().
LexCommentTest ==
    /\ pc = "comment_test"
    /\ IF Peek(cursor) = "\n"
       THEN /\ cursor' = Ignore(cursor)
            /\ pc' = "scan"
       ELSE /\ cursor' = cursor
            /\ pc' = "comment_pop"
    /\ UNCHANGED <<mapvars, rendervars, text, paren_stack, tokens, errors, lex_result, parsevars>>

\* The body of the comment loop: cursor.pop(), its result dropped.
LexCommentPop ==
    /\ pc = "comment_pop"
    /\ cursor' = Pop(cursor)
    /\ pc' = "comment_test"
    /\ UNCHANGED <<mapvars, rendervars, text, paren_stack, tokens, errors, lex_result, parsevars>>

\* next_leaf_ty: a digit enters the integer-literal loop.
LexDigitStart ==
    /\ pc = "scan"
    /\ Peek(cursor) \notin OpenChars \cup CloseChars \cup {None}
    /\ LeafArm(Peek(cursor), Peek(Pop(cursor))) = "digits"
    /\ cursor' = Pop(cursor)
    /\ pc' = "digits"
    /\ UNCHANGED <<mapvars, rendervars, text, paren_stack, tokens, errors, lex_result, parsevars>>

\* `while cursor.peek().is_some_and(|c| c.is_ascii_digit())`, then the token.
LexDigits ==
    /\ pc = "digits"
    /\ IF Peek(cursor) \in AsciiDigits
       THEN /\ cursor' = Pop(cursor)
            /\ UNCHANGED <<tokens, pc>>
       ELSE /\ tokens' = Append(tokens, Leaf(Ty("IntLit"), PoppedSpan(cursor)))
            /\ cursor' = Ignore(cursor)
            /\ pc' = "scan"
    /\ UNCHANGED <<mapvars, rendervars, text, paren_stack, errors, lex_result, parsevars>>

\* next_leaf_ty: a letter or underscore enters the identifier loop.
LexIdentStart ==
    /\ pc = "scan"
    /\ Peek(cursor) \notin OpenChars \cup CloseChars \cup {None}
    /\ LeafArm(Peek(cursor), Peek(Pop(cursor))) = "ident"
    /\ cursor' = Pop(cursor)
    /\ pc' = "ident"
    /\ UNCHANGED <<mapvars, rendervars, text, paren_stack, tokens, errors, lex_result, parsevars>>

\* `while cursor.peek().is_some_and(char_can_continue_ident)`, then the token.
LexIdent ==
    /\ pc = "ident"
    /\ IF Peek(cursor) # None /\ char_can_continue_ident(Peek(cursor))
       THEN /\ cursor' = Pop(cursor)
            /\ UNCHANGED <<tokens, pc>>
       ELSE /\ tokens' = Append(tokens, Leaf(ident_token_ty(PoppedText(cursor)),
                                             PoppedSpan(cursor)))
            /\ cursor' = Ignore(cursor)
            /\ pc' = "scan"
    /\ UNCHANGED <<mapvars, rendervars, text, paren_stack, errors, lex_result, parsevars>>

\* next_leaf_ty: a symbol, or an illegal character.
LexSymbol ==
    /\ pc = "scan"
    /\ Peek(cursor) \notin OpenChars \cup CloseChars \cup {None}
    /\ LeafArm(Peek(cursor), Peek(Pop(cursor))) = "symbol"
    /\ LET sym == SymbolTy(Peek(cursor), Peek(Pop(cursor)))
           cur == IF sym.two THEN Pop(Pop(cursor)) ELSE Pop(cursor)
       IN
        /\ tokens' = Append(tokens, Leaf(sym.ty, PoppedSpan(cur)))
        /\ cursor' = Ignore(cur)
    /\ UNCHANGED <<mapvars, rendervars, text, paren_stack, pc, errors, lex_result, parsevars>>

\* One iteration of `for (_, left_span, prev_tokens) in paren_stack.rev()`.
LexUnwind ==
    /\ pc = "unwind"
    /\ paren_stack # <<>>
    /\ tokens' = Splice(paren_stack[Len(paren_stack)], tokens)
    /\ paren_stack' = SubSeq(paren_stack, 1, Len(paren_stack) - 1)
    /\ UNCHANGED <<mapvars, rendervars, text, cursor, pc, errors, lex_result, parsevars>>

\* Faulty variant: the scan ends without the end-of-file leaf.
LexEOF_missing ==
    /\ pc = "unwind"
    /\ paren_stack = <<>>
    /\ pc' = "find_errors"
    /\ UNCHANGED <<mapvars, rendervars, text, lexvars, errors, lex_result, parsevars>>

\* tokens.push(self.cursor.popped_as_token(TokenType::EOF))
LexEOF ==
    /\ pc = "unwind"
    /\ paren_stack = <<>>
    /\ tokens' = Append(tokens, Leaf(Ty("EOF"), PoppedSpan(cursor)))
    /\ cursor' = Ignore(cursor)
    /\ pc' = "find_errors"
    /\ UNCHANGED <<mapvars, rendervars, text, paren_stack, errors, lex_result, parsevars>>

(***************************************************************************)
(* lex_source after get_tokens, and the start of parse_source.             *)
(***************************************************************************)
\* find_errors(&tokens, &source, &mut errors), then Ok(tokens) or Err(errors).
FindErrors ==
    /\ pc = "find_errors"
    /\ LET st == find_errors(tokens, [errors |-> <<>>, panicked |-> FALSE]) IN
       IF st.panicked
       THEN /\ pc' = "panic"
            /\ UNCHANGED <<errors, lex_result>>
       ELSE /\ errors' = st.errors
            /\ lex_result' = IF st.errors = <<>> THEN "Ok" ELSE "Err"
            /\ pc' = "lex_source_ret"
    /\ UNCHANGED <<mapvars, rendervars, text, lexvars, parsevars>>

\* Faulty variant: the lexer's diagnostics are dropped.
ParseSourceLexErr_dropping ==
    /\ pc = "lex_source_ret"
    /\ lex_result = "Err"
    /\ result' = [tag |-> "Err", diagnostics |-> <<>>]
    /\ pc' = "done"
    /\ UNCHANGED <<mapvars, rendervars, text, lexvars, errors, lex_result, pos, args_cursor, frame,
                   decl, declarations, iter_starts, diagnostics, sync>>

\* parse_source: `lex_source(source)?` returns the lexer's diagnostics.
ParseSourceLexErr ==
    /\ pc = "lex_source_ret"
    /\ lex_result = "Err"
    /\ result' = [tag |-> "Err", diagnostics |-> errors]
    /\ pc' = "done"
    /\ UNCHANGED <<mapvars, rendervars, text, lexvars, errors, lex_result, pos, args_cursor, frame,
                   decl, declarations, iter_starts, diagnostics, sync>>

\* parse_source: Cursor::new(&lexed), an empty Vec of diagnostics, parse_file.
ParseSourceStart ==
    /\ pc = "lex_source_ret"
    /\ lex_result = "Ok"
    /\ pos' = 0
    /\ diagnostics' = <<>>
    /\ declarations' = <<>>
    /\ iter_starts' = <<>>
    /\ pc' = "file_loop"
    /\ UNCHANGED <<mapvars, rendervars, text, lexvars, errors, lex_result, args_cursor, frame, decl,
                   sync, result>>

(***************************************************************************)
(* parse_file and parse_decl.                                              *)
(***************************************************************************)
\* `while !cursor.is_eof()`: the loop goes on with parse_decl; when it ends,
\* parse_file returns Ok(file) and parse_source its match on it.
ParseFileLoop ==
    /\ pc = "file_loop"
    /\ IF ~is_eof(Outer)
       THEN /\ pc' = "decl"
            /\ decl' = Pending
            /\ iter_starts' = Append(iter_starts, pos)
            /\ UNCHANGED result
       ELSE /\ result' = parse_source_result(Ok([declarations |-> declarations]),
                                             diagnostics)
            /\ pc' = "done"
            /\ UNCHANGED <<decl, iter_starts>>
    /\ UNCHANGED <<mapvars, rendervars, text, lexvars, errors, lex_result, pos, args_cursor, frame,
                   declarations, diagnostics, sync>>

\* parse_decl, no `fn` ahead: Err(Unsynced).
ParseDeclOther ==
    /\ pc = "decl"
    /\ ~peek_is(Outer, Ty("Fn"))
    /\ decl' = Err("Unsynced")
    /\ pc' = "decl_check"
    /\ UNCHANGED <<mapvars, rendervars, text, lexvars, errors, lex_result, pos, args_cursor, frame,
                   declarations, iter_starts, diagnostics, sync, result>>

\* parse_decl, `fn` ahead: parse_fn's pop_assert(Fn) and pop_expect(Ident).
ParseFnStart ==
    /\ pc = "decl"
    /\ peek_is(Outer, Ty("Fn"))
    /\ LET fn_kw == peek(Outer)
           name == pop_expect(pop(Outer), Ty("Ident"))
       IN
        /\ frame' = [NoFrame EXCEPT !.fn_kw = TreeSpan(fn_kw),
                                    !.name_ident = name.res]
        /\ pos' = name.cur.pos
    /\ pc' = "fn_args"
    /\ UNCHANGED <<mapvars, rendervars, text, lexvars, errors, lex_result, args_cursor, decl,
                   declarations, iter_starts, diagnostics, sync, result>>

\* parse_fn_args: pop_expect(Parens)?, then a cursor over the node's children.
ParseFnArgsOpen ==
    /\ pc = "fn_args"
    /\ LET args_tokens == pop_expect(Outer, Ty("Parens")) IN
       IF args_tokens.res.status = "Ok"
       THEN /\ pos' = args_tokens.cur.pos
            /\ args_cursor' = [tokens |-> args_tokens.res.value.children, pos |-> 0]
            /\ frame' = [frame EXCEPT !.args = [status |-> "none", value |-> <<>>]]
            /\ pc' = "args_loop"
       ELSE /\ frame' = [frame EXCEPT !.args = Err("Unsynced")]
            /\ pc' = "fn_return_ty"
            /\ UNCHANGED <<pos, args_cursor>>
    /\ UNCHANGED <<mapvars, rendervars, text, lexvars, errors, lex_result, decl, declarations, iter_starts,
                   diagnostics, sync, result>>

\* parse_fn_args: `while !cursor.is_eof()` and the match on parse_fn_arg.
ParseFnArgsLoop ==
    /\ pc = "args_loop"
    /\ IF is_eof(args_cursor)
       THEN /\ pc' = "args_end"
            /\ UNCHANGED <<args_cursor, frame, sync>>
       ELSE LET arg == parse_fn_arg(args_cursor) IN
            /\ args_cursor' = arg.cur
            /\ IF arg.res.status = "Ok"
               THEN /\ frame' = [frame EXCEPT !.args.value = Append(@, arg.res.value)]
                    /\ pc' = "args_comma"
                    /\ UNCHANGED sync
               ELSE /\ sync' = [on |-> "args", sync_tokens |-> {Ty("Comma")},
                                from |-> arg.cur.pos, ret |-> "args_comma"]
                    /\ pc' = "sync_test"
                    /\ UNCHANGED frame
    /\ UNCHANGED <<mapvars, rendervars, text, lexvars, errors, lex_result, pos, decl, declarations, iter_starts,
                   diagnostics, result>>

\* parse_fn_args: `if cursor.pop_if(Comma).is_none() { break }`.
ParseFnArgsComma ==
    /\ pc = "args_comma"
    /\ LET comma == pop_if(args_cursor, Ty("Comma")) IN
        /\ args_cursor' = comma.cur
        /\ pc' = IF comma.some THEN "args_loop" ELSE "args_end"
    /\ UNCHANGED <<mapvars, rendervars, text, lexvars, errors, lex_result, pos, frame, decl,
                   declarations, iter_starts, diagnostics, sync, result>>

\* parse_fn_args after the loop: todo!() unless the children are used up.
ParseFnArgsEnd ==
    /\ pc = "args_end"
    /\ IF ~is_eof(args_cursor)
       THEN /\ pc' = "panic"
            /\ UNCHANGED frame
       ELSE /\ frame' = [frame EXCEPT !.args.status = "Ok"]
            /\ pc' = "fn_return_ty"
    /\ UNCHANGED <<mapvars, rendervars, text, lexvars, errors, lex_result, pos, args_cursor, decl,
                   declarations, iter_starts, diagnostics, sync, result>>

\* parse_fn: parse_fn_return_ty(cursor, diags)
ParseFnReturnTy ==
    /\ pc = "fn_return_ty"
    /\ LET ret == parse_fn_return_ty(Outer) IN
        /\ frame' = [frame EXCEPT !.return_ty = ret.res]
        /\ pos' = ret.cur.pos
    /\ pc' = "fn_block"
    /\ UNCHANGED <<mapvars, rendervars, text, lexvars, errors, lex_result, args_cursor, decl,
                   declarations, iter_starts, diagnostics, sync, result>>

\* parse_fn: parse_block(cursor, diags), then the FnDeclAst or the failure.
ParseFnBlock ==
    /\ pc = "fn_block"
    /\ LET block == parse_block(Outer)
           fr == [frame EXCEPT !.body = block.res]
       IN
        /\ frame' = fr
        /\ pos' = block.cur.pos
        /\ decl' = parse_fn_result(fr)
    /\ pc' = "decl_check"
    /\ UNCHANGED <<mapvars, rendervars, text, lexvars, errors, lex_result, args_cursor, declarations, iter_starts,
                   diagnostics, sync, result>>

\* parse_decl: `if let Err(Unsynced) = decl { cursor.sync_to(&[Fn]); ... }`.
ParseDeclCheck ==
    /\ pc = "decl_check"
    /\ IF decl.status = "Unsynced"
       THEN /\ sync' = [on |-> "outer", sync_tokens |-> {Ty("Fn")},
                        from |-> pos, ret |-> "decl_synced"]
            /\ pc' = "sync_test"
            /\ UNCHANGED declarations
       ELSE \* parse_decl returns decl; parse_file pushes it when it is Ok.
            /\ declarations' = IF decl.status = "Ok"
                               THEN Append(declarations, decl.value)
                               ELSE declarations
            /\ pc' = "file_loop"
            /\ UNCHANGED sync
    /\ UNCHANGED <<mapvars, rendervars, text, lexvars, errors, lex_result, pos, args_cursor, frame,
                   decl, iter_starts, diagnostics, result>>

\* parse_decl returns Err(Synced) after sync_to; parse_file pushes nothing.
ParseDeclSynced ==
    /\ pc = "decl_synced"
    /\ decl' = Err("Synced")
    /\ pc' = "file_loop"
    /\ UNCHANGED <<mapvars, rendervars, text, lexvars, errors, lex_result, pos, args_cursor, frame,
                   declarations, iter_starts, diagnostics, sync, result>>

(***************************************************************************)
(* Cursor::sync_to, on the cursor sync.on names.                           *)
(***************************************************************************)
SyncCursor == IF sync.on = "outer" THEN Outer ELSE args_cursor

\* `while !self.is_eof() && !sync_tokens.contains(&self.peek().ty())`
SyncTest ==
    /\ pc = "sync_test"
    /\ pc' = IF sync_to_test(SyncCursor, sync.sync_tokens)
             THEN "sync_body"
             ELSE sync.ret
    /\ UNCHANGED <<mapvars, rendervars, text, lexvars, errors, lex_result, parsevars>>

\* The body of the loop.
SyncBody ==
    /\ pc = "sync_body"
    /\ IF sync.on = "outer"
       THEN /\ pos' = sync_to_body(Outer).pos
            /\ UNCHANGED args_cursor
       ELSE /\ args_cursor' = sync_to_body(args_cursor)
            /\ UNCHANGED pos
    /\ pc' = "sync_test"
    /\ UNCHANGED <<mapvars, rendervars, text, lexvars, errors, lex_result, frame, decl, declarations, iter_starts,
                   diagnostics, sync, result>>

Next ==
    \/ LexEnd
    \/ LexOpen
    \/ LexCloseUnmatched
    \/ LexClose
    \/ LexWhitespace
    \/ LexCommentStart
    \/ LexCommentTest
    \/ LexCommentPop
    \/ LexDigitStart
    \/ LexDigits
    \/ LexIdentStart
    \/ LexIdent
    \/ LexSymbol
    \/ LexUnwind
    \/ LexEOF
    \/ FindErrors
    \/ ParseSourceLexErr
    \/ ParseSourceStart
    \/ ParseFileLoop
    \/ ParseDeclOther
    \/ ParseFnStart
    \/ ParseFnArgsOpen
    \/ ParseFnArgsLoop
    \/ ParseFnArgsComma
    \/ ParseFnArgsEnd
    \/ ParseFnReturnTy
    \/ ParseFnBlock
    \/ ParseDeclCheck
    \/ ParseDeclSynced
    \/ SyncTest
    \/ SyncBody

Spec == Init /\ [][Next]_vars

\* The run is one sequential process: it takes its next step whenever it has one.
FairSpec == Spec /\ WF_vars(Next)

(***************************************************************************)
(* The source map on its own: calls on a SourceMap and its sources, with   *)
(* no run of parse_source.                                                 *)
(***************************************************************************)
Filenames == {"a.fern", "b.fern"}

SrcAlphabet == {"f", "\n", EAcute}

\* The texts of the one-source map.
SrcTexts == UNION {[1..k -> SrcAlphabet] : k \in 0..MaxSrcLen}

\* The texts of the maps of several sources: empty, ending in a newline,
\* and with a two-byte character.
MapTexts == {<<>>, <<"f", "\n">>, <<EAcute, "f">>}

\* No text is being lexed or parsed.
Idle ==
    /\ text = <<>>
    /\ cursor = [byte_offset |-> 0, span_offset |-> 0, span_len |-> 0]
    /\ paren_stack = <<>>
    /\ tokens = <<>>
    /\ errors = <<>>
    /\ lex_result = "none"
    /\ pos = 0
    /\ args_cursor = NoCursor
    /\ frame = NoFrame
    /\ decl = Pending
    /\ declarations = <<>>
    /\ iter_starts = <<>>
    /\ diagnostics = <<>>
    /\ sync = NoSync
    /\ result = [tag |-> "none"]
    /\ pc = "source_map"

\* SourceMap::new
MapInit ==
    /\ sources = <<>>
    /\ calls = <<>>
    /\ made = NoCall
    /\ diag = NoDiagnostic
    /\ rendered = NoRender
    /\ Idle

runvars == <<text, lexvars, errors, lex_result, parsevars, pc>>

idlevars == <<runvars, rendervars>>

\* The byte offsets of src that are on a character boundary.
Boundaries(src) == {b \in 0..ByteLen(src.text) : IsCharBoundary(src.text, b)}

\* The positions pos_from_byte returns for src.
Positions(src) == {pos_from_byte(src, b).value : b \in Boundaries(src)}

\* sm.add_source(filename, t), with t drawn from the set texts
AddSourceFrom(texts) ==
    \E filename \in Filenames, t \in texts :
        LET added == add_source(sources, filename, t) IN
        /\ sources' = added.sources
        /\ calls' = Append(calls, [filename |-> filename, text |-> t,
                                   id |-> added.id])
        /\ made' = [op |-> "add_source", result |-> Returned(added.id)]
        /\ UNCHANGED idlevars

\* The first source of a map, of any text of the bounds.
AddFirstSource ==
    /\ pc = "source_map"
    /\ sources = <<>>
    /\ AddSourceFrom(SrcTexts)

\* One more source of a map.
AddSource ==
    /\ pc = "source_map"
    /\ Len(sources) < MaxSources
    /\ AddSourceFrom(MapTexts)

\* sm.get_source(id), of an id the map issued
GetSource ==
    /\ pc = "source_map"
    /\ \E k \in DOMAIN calls :
        made' = [op |-> "get_source", id |-> calls[k].id,
                 result |-> get_source(sources, calls[k].id)]
    /\ UNCHANGED <<idlevars, sources, calls>>

\* source.pos_from_byte(byte), as Source::span calls it
PosFromByte ==
    /\ pc = "source_map"
    /\ \E i \in DOMAIN sources :
       \E byte \in 0..(ByteLen(sources[i].text) + 1) :
        made' = [op |-> "pos_from_byte", src_id |-> sources[i].id,
                 byte |-> byte, result |-> pos_from_byte(sources[i], byte)]
    /\ UNCHANGED <<idlevars, sources, calls>>

\* SourcePos::new(src_id, byte), the public constructor
SourcePosNew ==
    /\ pc = "source_map"
    /\ \E i \in DOMAIN sources :
       \E byte \in 0..(ByteLen(sources[i].text) + 1) :
        made' = [op |-> "SourcePos_new", src_id |-> sources[i].id,
                 byte |-> byte,
                 result |-> Returned(SourcePos_new(sources[i].id, byte))]
    /\ UNCHANGED <<idlevars, sources, calls>>

\* Span::new(start, end), of two positions of registered sources
SpanNew ==
    /\ pc = "source_map"
    /\ \E i \in DOMAIN sources, j \in DOMAIN sources :
       \E start \in Positions(sources[i]), end \in Positions(sources[j]) :
        made' = [op |-> "Span_new", start |-> start, end |-> end,
                 result |-> Span_new(start, end)]
    /\ UNCHANGED <<idlevars, sources, calls>>

\* source.line_of(pos)
LineOf ==
    /\ pc = "source_map"
    /\ \E i \in DOMAIN sources : \E p \in Positions(sources[i]) :
        made' = [op |-> "line_of", src |-> i, pos |-> p,
                 result |-> line_of(sources[i], p)]
    /\ UNCHANGED <<idlevars, sources, calls>>

\* source.col_of(pos)
ColOf ==
    /\ pc = "source_map"
    /\ \E i \in DOMAIN sources : \E p \in Positions(sources[i]) :
        made' = [op |-> "col_of", src |-> i, pos |-> p,
                 result |-> col_of(sources[i], p)]
    /\ UNCHANGED <<idlevars, sources, calls>>

\* source.span_of_line(line), of a line some position of the source is on
SpanOfLine ==
    /\ pc = "source_map"
    /\ \E i \in DOMAIN sources : \E p \in Positions(sources[i]) :
        LET line == line_of(sources[i], p).value IN
        made' = [op |-> "span_of_line", src |-> i, line |-> line,
                 result |-> span_of_line(sources[i], line)]
    /\ UNCHANGED <<idlevars, sources, calls>>

\* One source, and the queries on it.
SourceNext ==
    \/ AddFirstSource
    \/ LineOf
    \/ ColOf
    \/ SpanOfLine

SourceSpec == MapInit /\ [][SourceNext]_vars

\* Several sources, and the positions and spans made in them.
SourceMapNext ==
    \/ AddSource
    \/ GetSource
    \/ PosFromByte
    \/ SourcePosNew
    \/ SpanNew

SourceMapSpec == MapInit /\ [][SourceMapNext]_vars

(***************************************************************************)
(* A diagnostic on its own: parts are added to it and it is rendered       *)
(* against a map of one source, with no run of parse_source.               *)
(***************************************************************************)
\* The texts diagnostics are rendered against: two lines with the last one
\* unterminated, and a two-byte character on a line that ends the text.
RenderTexts == {<<"f", "\n", "f", "f">>, <<EAcute, "f", "\n">>}

\* A text of ten lines, the second of five characters.
TextManyLines ==
    <<"f", "\n", "f", "f", "f", "f", "f", "\n", "f", "\n", "f", "\n", "f", "\n",
      "f", "\n", "f", "\n", "f", "\n", "f", "\n", "f">>

RenderFile == "a.fern"

\* The annotations of the parts.
Helps == {"h1", "h2"}

\* The ends of the spans that parts mark from start: any in the short
\* texts, the next byte in the text of ten lines.
SpanEnds(src, start) ==
    IF src.text = TextManyLines THEN {start + 1} ELSE 0..ByteLen(src.text)

\* The annotations of the parts of a source.
PartHelps(src) == IF src.text = TextManyLines THEN {"h1"} ELSE Helps

\* A map of one source, and Diagnostic::new.
RenderInit ==
    /\ \E t \in RenderTexts \cup {TextManyLines} :
         /\ sources = add_source(<<>>, RenderFile, t).sources
         /\ calls = <<[filename |-> RenderFile, text |-> t, id |-> 0]>>
    /\ made = NoCall
    /\ diag = Diagnostic_new("msg")
    /\ rendered = NoRender
    /\ Idle

\* diag.add_part(source.span(start, end), help), while the diagnostic is
\* built: Diagnostic::new(msg).add_part(..).add_part(..), then render.
AddPart ==
    /\ pc = "source_map"
    /\ rendered = NoRender
    /\ Len(diag.parts) < MaxParts
    /\ \E i \in DOMAIN sources :
       \E help \in PartHelps(sources[i]), start \in 0..ByteLen(sources[i].text) :
       \E end \in SpanEnds(sources[i], start) :
        LET span == Source_span(sources[i], start, end) IN
        /\ span # Panicked
        /\ diag' = add_part(diag, span.value, help)
    /\ UNCHANGED <<runvars, mapvars, rendered>>

\* diag.render(&mut out, &sm), on an empty `out`
Render ==
    /\ pc = "source_map"
    /\ rendered' = render(sources, diag)
    /\ UNCHANGED <<runvars, mapvars, diag>>

RenderNext ==
    \/ AddPart
    \/ Render

RenderSpec == RenderInit /\ [][RenderNext]_vars

(***************************************************************************)
(* Vocabulary of the properties.                                           *)
(***************************************************************************)
Last(s) == s[Len(s)]

Front(s) == SubSeq(s, 1, Len(s) - 1)

\* The kind of delimiter a character is.
DelimKind(c) ==
    CASE c \in {"(", ")"} -> "Paren"
      [] c \in {"{", "}"} -> "Bracket"
      [] c \in {"[", "]"} -> "Square"

StartOf(tree) == IF tree.kind = "Leaf" THEN tree.span.start ELSE tree.left.start

EndOf(tree) == IF tree.kind = "Leaf" THEN tree.span.end ELSE tree.right.end

IsErrorLeaf(tree, reason) ==
    tree.kind = "Leaf" /\ tree.ty[1] = "Error" /\ tree.ty[2][1] = reason

RECURSIVE NodesOf(_)
\* Every node of a sequence of trees, at any depth.
NodesOf(toks) ==
    UNION {IF toks[i].kind = "Node"
           THEN {toks[i]} \cup NodesOf(toks[i].children)
           ELSE {} : i \in DOMAIN toks}

RECURSIVE ErrorLeaves(_)
\* The error leaves of a sequence of trees, at any depth, in tree order.
ErrorLeaves(toks) ==
    IF toks = <<>> THEN <<>>
    ELSE LET t == Head(toks) IN
         (IF t.kind = "Node" THEN ErrorLeaves(t.children)
          ELSE IF t.ty[1] = "Error" THEN <<t>> ELSE <<>>)
         \o ErrorLeaves(Tail(toks))

\* The diagnostic template of diagnostics/specifics.rs for an error reason.
TemplateOf(reason) ==
    CASE reason = "IllegalChar" -> "Illegal character"
      [] reason = "UnmatchedOpenParen" -> "Unclosed delimiter"
      [] reason = "UnmatchedCloseParen" -> "Unexpected closing delimiter"
      [] reason = "MismatchedParenTy" -> "Mismatched closing delimiter"

\* The trees built so far: the current list and the lists waiting on the stack.
BuiltNodes ==
    NodesOf(tokens) \cup UNION {NodesOf(paren_stack[i].tokens) : i \in DOMAIN paren_stack}

LexPcs ==
    {"scan", "comment_test", "comment_pop", "digits", "ident", "unwind",
     "find_errors"}

Consumed == cursor'.byte_offset > cursor.byte_offset

\* The span of the one character the scan is about to pop.
NextCharSpan ==
    Span(cursor.byte_offset, cursor.byte_offset + CharLen(Peek(cursor)))

(***************************************************************************)
(* C1.  Every iteration of every scanning loop of the lexer consumes at    *)
(* least one character or ends its loop: the main loop of get_tokens, the  *)
(* digit and identifier loops and the comment loop of next_leaf_ty.        *)
(* Violated: the body of the comment loop pops nothing at the end of the   *)
(* text, and the loop's test never fails there.                            *)
(***************************************************************************)
C1_EveryIterationConsumes ==
    [][/\ pc = "scan" => (Consumed \/ pc' = "unwind")
       /\ pc \in {"digits", "ident"} => (Consumed \/ pc' = "scan")
       /\ pc = "comment_pop" => Consumed]_vars

(***************************************************************************)
(* C2.  parse_file terminates on every token-tree sequence the lexer       *)
(* produces: once its loop is entered, parse_source eventually returns     *)
(* (or aborts).  Violated under FairSpec: sync_to never advances.          *)
(***************************************************************************)
C2_ParseFileTerminates == (pc = "file_loop") ~> (pc \in {"done", "panic"})

(***************************************************************************)
(* C3.  When a sync_to pass returns, its cursor is strictly past the       *)
(* position the pass began at, unless that position was already the end    *)
(* of input; and no two iterations of the declaration loop begin at the    *)
(* same position.  Violated: a pass that returns has moved nothing.        *)
(***************************************************************************)
C3_SyncAdvances ==
    [][/\ (pc = "sync_test" /\ pc' = sync.ret) =>
              \/ SyncCursor'.pos > sync.from
              \/ sync.from >= Len(SyncCursor.tokens)
       /\ \A i, j \in DOMAIN iter_starts' :
              i < j => iter_starts'[i] # iter_starts'[j]]_vars

(***************************************************************************)
(* C4.  Once lex_source is past find_errors it has returned Ok exactly     *)
(* when the tree holds no error leaf, and otherwise Err with one           *)
(* diagnostic per error leaf, in tree order, each of the template of its   *)
(* reason and on the leaf's span.  Violated: three of the four reasons     *)
(* reach todo!() and lex_source returns nothing.                           *)
(***************************************************************************)
C4_LexSourceContract ==
    pc \notin LexPcs =>
        LET leaves == ErrorLeaves(tokens) IN
        IF leaves = <<>> THEN lex_result = "Ok"
        ELSE /\ lex_result = "Err"
             /\ Len(errors) = Len(leaves)
             /\ \A i \in DOMAIN leaves :
                    /\ errors[i].template = TemplateOf(leaves[i].ty[2][1])
                    /\ Last(errors[i].parts).span = leaves[i].span

(***************************************************************************)
(* C5.  A function declaration that failed to parse has a diagnostic in    *)
(* the list parse_source returns on failure, and an Ok result holds a      *)
(* declaration for every iteration of the declaration loop.  Violated: no  *)
(* production ever pushes a diagnostic.                                    *)
(***************************************************************************)
C5_FailedDeclReported ==
    /\ (/\ pc = "decl_check"
        /\ decl.status = "Unsynced"
        /\ TreeTy(tokens[Last(iter_starts) + 1]) = Ty("Fn")) => diagnostics # <<>>
    /\ result.tag = "Ok" => Len(result.file.declarations) = Len(iter_starts)

(***************************************************************************)
(* C6.  A closer whose kind differs from the kind of the opener on top of  *)
(* the stack still builds the node: of the opener's kind, its children     *)
(* the tokens collected since the opener followed by exactly one           *)
(* mismatched-delimiter error leaf on the closer's span, appended to the   *)
(* restored enclosing list.                                                *)
(***************************************************************************)
C6_MismatchBuildsNode ==
    [][(/\ pc = "scan"
        /\ Peek(cursor) \in CloseChars
        /\ paren_stack # <<>>
        /\ DelimKind(Peek(cursor)) # Last(paren_stack).ty) =>
           LET opener == Last(paren_stack)
               node == Last(tokens')
           IN /\ Front(tokens') = opener.tokens
              /\ node.kind = "Node"
              /\ node.paren_ty = opener.ty
              /\ node.left = opener.span
              /\ node.children # <<>>
              /\ Front(node.children) = tokens
              /\ Last(node.children) =
                     Leaf(TyError(MismatchedParenTy(DelimKind(Peek(cursor)))),
                          NextCharSpan)
              /\ Cardinality({i \in DOMAIN node.children :
                     IsErrorLeaf(node.children[i], "MismatchedParenTy")}) = 1
              /\ paren_stack' = Front(paren_stack)]_vars

\* A node that kept a collected token and ends with the mismatch leaf.
C6_Witness ==
    \E i \in DOMAIN tokens :
        /\ tokens[i].kind = "Node"
        /\ Len(tokens[i].children) >= 2
        /\ IsErrorLeaf(Last(tokens[i].children), "MismatchedParenTy")

(***************************************************************************)
(* C7.  Every mismatched-delimiter error leaf carries the span of the      *)
(* opening delimiter of its node.  Violated: MismatchedParenTy carries the *)
(* ParenType of the closer and no span.                                    *)
(***************************************************************************)
C7_MismatchCarriesOpenerSpan ==
    \A n \in BuiltNodes :
        \A i \in DOMAIN n.children :
            IsErrorLeaf(n.children[i], "MismatchedParenTy") =>
                LET carried == n.children[i].ty[2][2] IN
                /\ "span" \in DOMAIN carried
                /\ carried.span = n.left

(***************************************************************************)
(* C8.  A closer met with an empty stack appends exactly one               *)
(* unmatched-closing-delimiter error leaf on its span to the current       *)
(* list, builds no node, and leaves the stack and the tokens collected     *)
(* before it as they were; the text `}` lexes to that one error leaf and   *)
(* the end-of-file leaf.                                                   *)
(***************************************************************************)
C8_UnmatchedCloseInPlace ==
    [][/\ (/\ pc = "scan"
           /\ Peek(cursor) \in CloseChars
           /\ paren_stack = <<>>) =>
              /\ tokens' = Append(tokens, Leaf(TyError(UnmatchedCloseParen),
                                               NextCharSpan))
              /\ paren_stack' = paren_stack
              /\ pc' = "scan"
       /\ (text = <<"}">> /\ pc' = "find_errors") =>
              tokens' = <<Leaf(TyError(UnmatchedCloseParen), Span(0, 1)),
                          Leaf(Ty("EOF"), Span(1, 1))>>]_vars

\* An unmatched closer was met after other tokens, at the top level.
C8_Witness ==
    /\ pc = "scan"
    /\ paren_stack = <<>>
    /\ Len(tokens) >= 2
    /\ IsErrorLeaf(Last(tokens), "UnmatchedCloseParen")
    /\ ~IsErrorLeaf(tokens[1], "UnmatchedCloseParen")

(***************************************************************************)
(* C9.  At the end of input each opener left on the stack, innermost       *)
(* first, becomes one unmatched-opening-delimiter error leaf on the        *)
(* opener's span, placed after the tokens of the enclosing list and before *)
(* the tokens collected after the opener; the top-level output is then in  *)
(* source order, no tree overlapping the next.                             *)
(***************************************************************************)
InSourceOrder(toks) ==
    \A i \in 1..(Len(toks) - 1) :
        /\ StartOf(toks[i]) < EndOf(toks[i])
        /\ EndOf(toks[i]) <= StartOf(toks[i + 1])

C9_UnwindSplices ==
    [][/\ (pc = "unwind" /\ paren_stack # <<>>) =>
              LET opener == Last(paren_stack) IN
              /\ CharAtByte(text, opener.span.start) \in OpenChars
              /\ opener.span.end = opener.span.start + 1
              /\ tokens' = opener.tokens
                           \o <<Leaf(TyError(UnmatchedOpenParen), opener.span)>>
                           \o tokens
              /\ paren_stack' = Front(paren_stack)
       /\ (pc = "unwind" /\ pc' = "find_errors") => InSourceOrder(tokens')]_vars

\* Two openers were left open, with an identifier before, between and after.
C9_Witness ==
    /\ pc = "find_errors"
    /\ \E i \in DOMAIN tokens :
        /\ 1 < i /\ i + 3 < Len(tokens)
        /\ IsErrorLeaf(tokens[i], "UnmatchedOpenParen")
        /\ IsErrorLeaf(tokens[i + 2], "UnmatchedOpenParen")
        /\ \A k \in {i - 1, i + 1, i + 3} :
               tokens[k].kind = "Leaf" /\ tokens[k].ty = Ty("Ident")

(***************************************************************************)
(* C10.  Every node starts at an opening delimiter of the node's kind and  *)
(* ends at a closing delimiter, the opener before the closer; a node       *)
(* without a mismatched-delimiter child has a closer of the opener's kind. *)
(* As stated, every child lies between the opener and the closer; as       *)
(* amended, every child but a mismatched-delimiter error leaf does, and    *)
(* that leaf is the closer itself.                                         *)
(***************************************************************************)
NodeDelimiters(n) ==
    /\ CharAtByte(text, n.left.start) \in OpenChars
    /\ DelimKind(CharAtByte(text, n.left.start)) = n.paren_ty
    /\ n.left.end = n.left.start + 1
    /\ n.right.end = n.right.start + 1
    /\ CharAtByte(text, n.right.start) \in CloseChars
    /\ n.left.start < n.right.start
    /\ (\A i \in DOMAIN n.children :
            ~IsErrorLeaf(n.children[i], "MismatchedParenTy")) =>
           DelimKind(CharAtByte(text, n.right.start)) = n.paren_ty

LiesBetween(n, child) ==
    n.left.end <= StartOf(child) /\ EndOf(child) <= n.right.start

\* C10 as stated.
C10_ChildrenAllBetween ==
    \A n \in BuiltNodes :
        /\ NodeDelimiters(n)
        /\ \A i \in DOMAIN n.children : LiesBetween(n, n.children[i])

\* C10 as amended.
C10_NodeExtent ==
    \A n \in BuiltNodes :
        /\ NodeDelimiters(n)
        /\ \A i \in DOMAIN n.children :
               IF IsErrorLeaf(n.children[i], "MismatchedParenTy")
               THEN n.children[i].span = n.right
               ELSE LiesBetween(n, n.children[i])

\* A node holding a nested node and, last, a mismatched-delimiter leaf.
C10_Witness ==
    /\ pc = "find_errors"
    /\ \E n \in NodesOf(tokens) :
        /\ \E i \in DOMAIN n.children : n.children[i].kind = "Node"
        /\ IsErrorLeaf(Last(n.children), "MismatchedParenTy")

(***************************************************************************)
(* Vocabulary of the round trip.                                           *)
(***************************************************************************)
\* The output of the lexer is complete: get_tokens has returned.
Lexed == pc = "find_errors"

\* The text from the first newline of s on; nothing when s has none.
RECURSIVE FromNewline(_)
FromNewline(s) ==
    IF s = <<>> THEN <<>>
    ELSE IF Head(s) = "\n" THEN s
    ELSE FromNewline(Tail(s))

\* s without its whitespace and its comments (`//` to the end of the line).
RECURSIVE StripTrivia(_)
StripTrivia(s) ==
    IF s = <<>> THEN <<>>
    ELSE IF Head(s) \in AsciiWhitespace THEN StripTrivia(Tail(s))
    ELSE IF Len(s) >= 2 /\ s[1] = "/" /\ s[2] = "/"
    THEN StripTrivia(FromNewline(s))
    ELSE <<Head(s)>> \o StripTrivia(Tail(s))

\* text_of_span over the span of each tree of toks, concatenated in order.
RECURSIVE TextOfTrees(_)
TextOfTrees(toks) ==
    IF toks = <<>> THEN <<>>
    ELSE text_of_span(text, TreeSpan(Head(toks))) \o TextOfTrees(Tail(toks))

\* The text the output leaves out between its i-th top-level tree and the
\* next (before the first for i = 0, after the last for i = Len(tokens)).
GapAfter(i) ==
    text_of_span(text,
        Span(IF i = 0 THEN 0 ELSE EndOf(tokens[i]),
             IF i = Len(tokens) THEN ByteLen(text) ELSE StartOf(tokens[i + 1])))

NewlineOffsets(t) == {ByteStart(t, i) : i \in {j \in 1..Len(t) : t[j] = "\n"}}

\* t does not end in a newline (the empty text included).
Unterminated(t) == t = <<>> \/ t[Len(t)] # "\n"

\* The lines of t: those a newline ends, and an unterminated last one.
NumLines(t) ==
    Cardinality(NewlineOffsets(t)) + (IF Unterminated(t) THEN 1 ELSE 0)

\* The number of newline characters of t at offsets strictly less than b.
NewlinesBefore(t, b) == Cardinality({o \in NewlineOffsets(t) : o < b})

\* The offset at which line l of t ends: its newline, or the end of t.
LineEnd(t, l) ==
    IF \E o \in NewlineOffsets(t) : NewlinesBefore(t, o) = l - 1
    THEN CHOOSE o \in NewlineOffsets(t) : NewlinesBefore(t, o) = l - 1
    ELSE ByteLen(t)

\* The offset at which line l of t starts.
LineStart(t, l) == IF l = 1 THEN 0 ELSE LineEnd(t, l - 1) + 1

\* The source the last query was made on.
MadeSource == sources[made.src]

(***************************************************************************)
(* C12.  Every byte offset on a character boundary of a registered source  *)
(* maps to a line of it: line_of(b) is between 1 and the number of         *)
(* entries of the newline index, so span_of_line(line_of(b)) and           *)
(* col_of(b) are defined.                                                  *)
(* Violated: in a text that ends in a newline the offset text.length is    *)
(* past every entry, line_of answers one more than the number of entries   *)
(* and span_of_line indexes the list out of range.                         *)
(***************************************************************************)
C12_EveryPositionHasALine ==
    /\ made.op = "line_of" =>
        /\ made.result # Panicked
        /\ made.result.value \in 1..Len(MadeSource.newlines)
    /\ made.op = "span_of_line" => made.result # Panicked
    /\ made.op = "col_of" => made.result # Panicked

(***************************************************************************)
(* C13.  After any sequence of add_source calls on one map, the k-th call  *)
(* (from 0) returned id k, no two calls returned the same id, get_source   *)
(* of an id returns the source registered by the call that returned it,    *)
(* and later registrations leave the name, text and newline index of       *)
(* every earlier source unchanged.                                         *)
(***************************************************************************)
C13_IdsAreInsertionOrder ==
    /\ [](/\ \A k \in DOMAIN calls :
              /\ calls[k].id = k - 1
              /\ \A j \in DOMAIN calls : j # k => calls[j].id # calls[k].id
              /\ LET got == get_source(sources, calls[k].id) IN
                  /\ got # Panicked
                  /\ got.value.filename = calls[k].filename
                  /\ got.value.text = calls[k].text
          /\ made.op = "get_source" =>
              \E k \in DOMAIN calls :
                  /\ calls[k].id = made.id
                  /\ made.result # Panicked
                  /\ made.result.value.filename = calls[k].filename
                  /\ made.result.value.text = calls[k].text)
    /\ [][\A i \in DOMAIN sources :
            /\ i \in DOMAIN sources'
            /\ sources'[i].filename = sources[i].filename
            /\ sources'[i].text = sources[i].text
            /\ sources'[i].newlines = sources[i].newlines]_vars

\* The first of two sources of different names and texts is looked up
\* after the second was registered.
C13_Witness ==
    /\ Len(calls) = 2
    /\ calls[1].filename # calls[2].filename
    /\ calls[1].text # calls[2].text
    /\ made.op = "get_source"
    /\ made.id = calls[1].id

(***************************************************************************)
(* C14.  The newline index of every registered text is strictly            *)
(* ascending, holds the offset of every newline character of the text,     *)
(* and one further entry equal to text.length exactly when the text does   *)
(* not end in a newline (the empty text included); it has no other entry.  *)
(***************************************************************************)
C14_NewlineIndex ==
    \A i \in DOMAIN sources :
        LET t == sources[i].text
            newlines == sources[i].newlines
        IN /\ \A j \in 1..(Len(newlines) - 1) : newlines[j] < newlines[j + 1]
           /\ {newlines[j] : j \in DOMAIN newlines} =
                  NewlineOffsets(t)
                  \cup (IF Unterminated(t) THEN {ByteLen(t)} ELSE {})

\* A text with a two-byte character, a newline and an unterminated last
\* line is registered.
C14_Witness ==
    /\ sources # <<>>
    /\ sources[1].text = <<EAcute, "\n", "f">>
    /\ sources[1].newlines = <<2, 4>>

(***************************************************************************)
(* C15.  line_of(b) is 1 plus the number of newline characters at offsets  *)
(* strictly less than b: a position on a newline is on the line the        *)
(* newline ends, the position just after it on the next line.              *)
(***************************************************************************)
C15_LineOfCountsNewlines ==
    made.op = "line_of" =>
        made.result =
            Returned(1 + NewlinesBefore(MadeSource.text, made.pos.byte))

\* The line of a position on the second newline of a text was asked for.
C15_Witness ==
    /\ made.op = "line_of"
    /\ made.pos.byte \in NewlineOffsets(MadeSource.text)
    /\ made.result = Returned(2)

(***************************************************************************)
(* C16.  For every valid byte offset b of a registered text, the column    *)
(* of the first byte of the line b is on is 1, and line_of is monotonic:   *)
(* no position before b is on a later line.                                *)
(***************************************************************************)
C16_LineStartIsColumnOne ==
    made.op = "line_of" =>
        /\ made.result # Panicked
        /\ LET start == first_byte_of_line(MadeSource, made.result.value) IN
            /\ start # Panicked
            /\ pos_from_byte(MadeSource, start.value) # Panicked
            /\ col_of(MadeSource, pos_from_byte(MadeSource, start.value).value)
                   = Returned(1)
        /\ \A q \in Positions(MadeSource) :
            q.byte <= made.pos.byte =>
                line_of(MadeSource, q).value <= made.result.value

\* The line of a position inside the second line, after a two-byte
\* character, was asked for.
C16_Witness ==
    /\ made.op = "line_of"
    /\ MadeSource.text = <<"\n", EAcute, "f">>
    /\ made.pos.byte = 3
    /\ made.result = Returned(2)

(***************************************************************************)
(* C17.  For every line l between 1 and the number of lines of a source,   *)
(* span_of_line(l) runs from the first byte of line l up to, and not       *)
(* including, the newline that ends it (or up to text.length for an        *)
(* unterminated last line): its text holds no newline and every position   *)
(* in it has line_of = l.                                                  *)
(***************************************************************************)
C17_SpanOfLine ==
    (made.op = "span_of_line" /\ made.line \in 1..NumLines(MadeSource.text)) =>
        /\ made.result # Panicked
        /\ LET span == made.result.value
               t == MadeSource.text
           IN /\ span.start.byte = LineStart(t, made.line)
              /\ span.end.byte = LineEnd(t, made.line)
              /\ \A i \in DOMAIN t :
                  (span.start.byte <= ByteStart(t, i) /\ ByteStart(t, i) < span.end.byte)
                      => t[i] # "\n"
              /\ \A q \in Positions(MadeSource) :
                  (span.start.byte <= q.byte /\ q.byte < span.end.byte)
                      => line_of(MadeSource, q) = Returned(made.line)

\* The span of a non-empty, unterminated second line was asked for.
C17_Witness ==
    /\ made.op = "span_of_line"
    /\ made.line = 2
    /\ MadeSource.text = <<"f", "\n", EAcute>>
    /\ made.result # Panicked
    /\ made.result.value.start.byte = 2
    /\ made.result.value.end.byte = 4

(***************************************************************************)
(* C18.  Every SourcePos that can be constructed has a byte offset on a    *)
(* character boundary of the source it names: constructing one at an       *)
(* interior byte of a multi-byte character fails at once.                  *)
(* Violated: pos_from_byte asserts the boundary, the public constructor    *)
(* SourcePos::new it calls does not.                                       *)
(***************************************************************************)
C18_PositionsOnBoundaries ==
    (made.op \in {"pos_from_byte", "SourcePos_new"} /\ made.result # Panicked) =>
        \E i \in DOMAIN sources :
            /\ sources[i].id = made.result.value.src_id
            /\ IsCharBoundary(sources[i].text, made.result.value.byte)

(***************************************************************************)
(* C19.  Every Span that exists has start.byte <= end.byte and both ends   *)
(* in one source: Span::new panics, and returns no span, when given        *)
(* positions of two sources or a start after the end.                      *)
(***************************************************************************)
C19_SpanNewChecks ==
    made.op = "Span_new" =>
        /\ (made.start.src_id # made.end.src_id \/ made.start.byte > made.end.byte)
               => made.result = Panicked
        /\ made.result # Panicked =>
            /\ made.result.value.start.byte <= made.result.value.end.byte
            /\ made.result.value.start.src_id = made.result.value.end.src_id
            /\ made.result.value.start = made.start
            /\ made.result.value.end = made.end

\* Span::new was given positions of two different sources, the start not
\* after the end, and panicked.
C19_Witness ==
    /\ made.op = "Span_new"
    /\ made.start.src_id # made.end.src_id
    /\ made.start.byte <= made.end.byte
    /\ made.result = Panicked

(***************************************************************************)
(* Vocabulary of the operators.                                            *)
(***************************************************************************)
\* The two-character operators: first and second character, the token of
\* the pair, the token of the first character alone (None when TokenType
\* has none).
TwoCharOps ==
    {[first |-> "-", second |-> ">", pair |-> "RArrow", single |-> "Minus"],
     [first |-> "=", second |-> "=", pair |-> "EqEq", single |-> "Eq"],
     [first |-> "!", second |-> "=", pair |-> "NotEq", single |-> "Not"],
     [first |-> "&", second |-> "&", pair |-> "AndAnd", single |-> None],
     [first |-> "|", second |-> "|", pair |-> "OrOr", single |-> None],
     [first |-> "<", second |-> "=", pair |-> "Lte", single |-> "Lt"],
     [first |-> ">", second |-> "=", pair |-> "Gte", single |-> "Gt"]}

\* The scan is about to pop the first character of the operator op.
AtOperator(op) == pc = "scan" /\ Peek(cursor) = op.first

\* The step pushed one leaf of type ty over the next len bytes, and the scan
\* goes on right after them.
LexedLeaf(ty, len) ==
    /\ tokens' = Append(tokens,
                        Leaf(ty, Span(cursor.byte_offset, cursor.byte_offset + len)))
    /\ cursor' = [byte_offset |-> cursor.byte_offset + len,
                  span_offset |-> cursor.byte_offset + len, span_len |-> 0]
    /\ pc' = "scan"

\* The step pushed one leaf that is no error token, over the next byte.
LexedSingleToken ==
    /\ Len(tokens') = Len(tokens) + 1
    /\ ~IsErrorTy(Last(tokens').ty)
    /\ LexedLeaf(Last(tokens').ty, 1)

(***************************************************************************)
(* C20 as stated.  For each two-character operator (`->`, `==`, `!=`,      *)
(* `&&`, `||`, `<=`, `>=`): when its first character is immediately        *)
(* followed by its second, the pair lexes to the one two-character         *)
(* token; when it is not, the first character lexes on its own to its      *)
(* single-character token and the scan goes on with the next character.    *)
(* Violated: `&` and `|` have no single-character token.                   *)
(***************************************************************************)
C20_FallBackToSingleToken ==
    [][\A op \in TwoCharOps :
        AtOperator(op) =>
            IF Peek(Pop(cursor)) = op.second
            THEN LexedLeaf(Ty(op.pair), 2)
            ELSE /\ LexedSingleToken
                 /\ op.single # None => LexedLeaf(Ty(op.single), 1)]_vars

(***************************************************************************)
(* C20, amended.  The pair lexes to the two-character token; without the   *)
(* second character, `-`, `=`, `!`, `<` and `>` lex on their own to        *)
(* their single-character token, `&` and `|` to an illegal-character       *)
(* error token over that one character; the scan goes on with the next     *)
(* character in every case.                                                *)
(***************************************************************************)
C20_TwoCharOperators ==
    [][\A op \in TwoCharOps :
        AtOperator(op) =>
            IF Peek(Pop(cursor)) = op.second
            THEN LexedLeaf(Ty(op.pair), 2)
            ELSE IF op.single # None
            THEN LexedLeaf(Ty(op.single), 1)
            ELSE LexedLeaf(TyError(IllegalChar), 1)]_vars

\* `-&==` has been lexed: a first character alone, a first character with
\* no token of its own, and a pair.
C20_Witness ==
    /\ Lexed
    /\ text = TextOps
    /\ tokens = <<Leaf(Ty("Minus"), Span(0, 1)),
                  Leaf(TyError(IllegalChar), Span(1, 2)),
                  Leaf(Ty("EqEq"), Span(2, 4)),
                  Leaf(Ty("EOF"), Span(4, 4))>>

(***************************************************************************)
(* Vocabulary of the leaf productions.                                     *)
(***************************************************************************)
\* The characters that are a token, or the start of one, on their own.
SymbolChars == {"+", "-", "*", "/", "!", "=", "<", ">", ";", ":", ","}

\* The character c, with nxt after it, starts none of the productions.
StartsNoProduction(c, nxt) ==
    /\ c \notin AsciiWhitespace \cup AsciiDigits \cup AsciiLetters \cup {"_"}
    /\ c \notin OpenChars \cup CloseChars \cup SymbolChars
    /\ ~(c = "&" /\ nxt = "&")
    /\ ~(c = "|" /\ nxt = "|")

\* The leaves of the trees of toks, at every depth.
RECURSIVE LeavesOf(_)
LeavesOf(toks) ==
    IF toks = <<>> THEN {}
    ELSE (IF Head(toks).kind = "Leaf" THEN {Head(toks)}
          ELSE LeavesOf(Head(toks).children))
         \cup LeavesOf(Tail(toks))

\* The leaves built so far.
AllLeaves ==
    LeavesOf(tokens)
    \cup UNION {LeavesOf(paren_stack[i].tokens) : i \in DOMAIN paren_stack}

\* The i-th character of the text is whitespace or part of a `//` comment.
IsTrivia(i) ==
    \/ text[i] \in AsciiWhitespace
    \/ \E j \in 1..i :
        /\ j < Len(text)
        /\ text[j] = "/"
        /\ text[j + 1] = "/"
        /\ \A k \in j..i : text[k] # "\n"

\* The characters of the text the span covers.
Covered(span) ==
    {i \in 1..Len(text) :
        span.start <= ByteStart(text, i) /\ ByteStart(text, i) < span.end}

\* The token type of an identifier run: the keyword table.
KeywordOrIdent(run) ==
    IF run = <<"f", "n">> THEN Ty("Fn")
    ELSE IF run = <<"l", "e", "t">> THEN Ty("Let")
    ELSE IF run = <<"i", "f">> THEN Ty("If")
    ELSE IF run = <<"w", "h", "i", "l", "e">> THEN Ty("While")
    ELSE IF run = <<"f", "o", "r">> THEN Ty("For")
    ELSE Ty("Ident")

(***************************************************************************)
(* C21.  A character that starts none of the lexer's productions yields    *)
(* one illegal-character error token whose span is exactly that one        *)
(* character, all of its bytes, and the next token scanned starts at the   *)
(* byte right after it: no following input is skipped.                     *)
(***************************************************************************)
C21_IllegalCharRecovery ==
    [][(/\ pc = "scan"
        /\ Peek(cursor) # None
        /\ StartsNoProduction(Peek(cursor), Peek(Pop(cursor))))
           => LexedLeaf(TyError(IllegalChar), CharLen(Peek(cursor)))]_vars

\* A two-byte illegal character and the identifier right after it have
\* been lexed.
C21_Witness ==
    /\ Lexed
    /\ text = <<EAcute, "f">>
    /\ tokens = <<Leaf(TyError(IllegalChar), Span(0, 2)),
                  Leaf(Ty("Ident"), Span(2, 3)),
                  Leaf(Ty("EOF"), Span(3, 3))>>

(***************************************************************************)
(* C22.  A maximal run that starts with an ASCII letter or underscore and  *)
(* goes on with ASCII letters, digits or underscores lexes to exactly one  *)
(* token: a keyword token if and only if the whole run is `fn`, `let`,     *)
(* `if`, `while` or `for`, a plain identifier otherwise.                   *)
(***************************************************************************)
C22_IdentifierRuns ==
    [][/\ (pc = "scan" /\ pc' = "ident") =>
            /\ Peek(cursor) \in AsciiLetters \cup {"_"}
            /\ cursor.span_len = 0
            /\ cursor'.span_offset = cursor.byte_offset
            /\ tokens' = tokens
       /\ (pc = "ident" /\ pc' = "ident") =>
            /\ cursor'.span_offset = cursor.span_offset
            /\ tokens' = tokens
       /\ (pc = "ident" /\ pc' = "scan") =>
            LET span == Span(cursor.span_offset, cursor.byte_offset)
                run == text_of_span(text, span)
            IN /\ run # <<>>
               /\ Head(run) \in AsciiLetters \cup {"_"}
               /\ \A i \in DOMAIN run :
                      run[i] \in AsciiLetters \cup AsciiDigits \cup {"_"}
               /\ Peek(cursor) \notin AsciiLetters \cup AsciiDigits \cup {"_"}
               /\ tokens' = Append(tokens, Leaf(KeywordOrIdent(run), span))
               /\ cursor'.byte_offset = cursor.byte_offset]_vars

\* The five keywords and three runs that are no keyword have been lexed.
C22_Witness ==
    /\ Lexed
    /\ text = TextKeywords
    /\ [i \in DOMAIN tokens |-> tokens[i].ty] =
           <<Ty("Fn"), Ty("Let"), Ty("If"), Ty("While"), Ty("For"),
             Ty("Ident"), Ty("Ident"), Ty("Ident"), Ty("EOF")>>

(***************************************************************************)
(* C23.  No token of the lexer's output covers a whitespace character or   *)
(* a character of a `//` line comment: scanning whitespace or a comment    *)
(* pushes no token and resets the pending span, so the next token starts   *)
(* at the first character after it.                                        *)
(***************************************************************************)
C23_TriviaIsNoToken ==
    /\ [](\A leaf \in AllLeaves : \A i \in Covered(leaf.span) : ~IsTrivia(i))
    /\ [][/\ (pc = "scan" /\ Peek(cursor) \in AsciiWhitespace) =>
               /\ tokens' = tokens
               /\ paren_stack' = paren_stack
               /\ cursor' = [byte_offset |-> cursor.byte_offset + 1,
                             span_offset |-> cursor.byte_offset + 1,
                             span_len |-> 0]
          /\ (pc = "scan" /\ pc' = "comment_test") =>
               /\ Peek(cursor) = "/"
               /\ Peek(Pop(cursor)) = "/"
               /\ tokens' = tokens
               /\ paren_stack' = paren_stack
          /\ pc \in {"comment_test", "comment_pop"} =>
               /\ tokens' = tokens
               /\ paren_stack' = paren_stack
               /\ pc' = "scan" =>
                    /\ Peek(cursor') = "\n"
                    /\ cursor'.span_offset = cursor'.byte_offset
                    /\ cursor'.span_len = 0]_vars

\* An integer, then a comment and blanks, then an identifier have been
\* lexed: two tokens and the end of file.
C23_Witness ==
    /\ Lexed
    /\ text = TextTrivia
    /\ tokens = <<Leaf(Ty("IntLit"), Span(0, 1)),
                  Leaf(Ty("Ident"), Span(6, 7)),
                  Leaf(Ty("EOF"), Span(7, 7))>>

(***************************************************************************)
(* C24.  Lexing `fn f(x: i32) -> i32 { }` produces no error token; its     *)
(* top level holds exactly one parenthesis node, whose children are the    *)
(* leaves `x`, `:`, `i32` in that order, followed later by exactly one     *)
(* curly node with no children.                                            *)
(***************************************************************************)
C24_ScenarioFn ==
    (Lexed /\ text = TextScenarioFn) =>
        LET parens == {i \in DOMAIN tokens :
                          tokens[i].kind = "Node" /\ tokens[i].paren_ty = "Paren"}
            curlies == {i \in DOMAIN tokens :
                          tokens[i].kind = "Node" /\ tokens[i].paren_ty = "Bracket"}
        IN /\ \A leaf \in AllLeaves : ~IsErrorTy(leaf.ty)
           /\ Cardinality(parens) = 1
           /\ Cardinality(curlies) = 1
           /\ \A i \in parens : \A j \in curlies :
               /\ i < j
               /\ tokens[j].children = <<>>
               /\ LET children == tokens[i].children IN
                   /\ Len(children) = 3
                   /\ \A k \in 1..3 : children[k].kind = "Leaf"
                   /\ [k \in 1..3 |-> children[k].ty] =
                          <<Ty("Ident"), Ty("Colon"), Ty("Ident")>>
                   /\ [k \in 1..3 |-> text_of_span(text, children[k].span)] =
                          <<<<"x">>, <<":">>, <<"i", "3", "2">>>>

\* The scenario text has been lexed to its seven top-level trees.
C24_Witness ==
    /\ Lexed
    /\ text = TextScenarioFn
    /\ Len(tokens) = 7

(***************************************************************************)
(* Vocabulary of the parser claims.                                        *)
(***************************************************************************)
\* The outer cursor as the step leaves it.
OuterAfter == [tokens |-> tokens', pos |-> pos']

\* The run is inside parse_fn_args, its call of sync_to included.
InFnArgs ==
    \/ pc \in {"args_loop", "args_comma", "args_end"}
    \/ pc \in {"sync_test", "sync_body"} /\ sync.on = "args"

\* The token types the productions ask a cursor for, and the end of file.
CursorTypes ==
    {Ty("Fn"), Ty("Ident"), Ty("Colon"), Ty("Comma"), Ty("RArrow"),
     Ty("Parens"), Ty("CurlyBrackets"), Ty("EOF")}

\* The cursors of the run.
LiveCursors == {Outer, args_cursor}

\* No parser production has run.
ParserUntouched ==
    /\ pos = 0
    /\ args_cursor = NoCursor
    /\ frame = NoFrame
    /\ decl = Pending
    /\ declarations = <<>>
    /\ iter_starts = <<>>
    /\ diagnostics = <<>>
    /\ sync = NoSync

C26_ArgsReturnControl ==
    /\ [][(pc = "fn_args" /\ peek_is(Outer, Ty("Parens")))
              => /\ pos' = pos + 1
                 /\ args_cursor' = [tokens |-> peek(Outer).children, pos |-> 0]]_vars
    /\ [][InFnArgs => (pos' = pos /\ pc' # "panic")]_vars
    /\ (pc = "args_loop") ~> (pc = "fn_return_ty")

(***************************************************************************)
(* C27.  Cursor operations: peek and peek_is never change the position;    *)
(* pop_if and pop_expect leave it unchanged when the current tree's type   *)
(* differs from the expected one or the cursor is at end-of-input (pop_if  *)
(* returns nothing, pop_expect an Unsynced failure) and otherwise advance  *)
(* it by exactly one and return the tree that was current; the position    *)
(* never decreases and never exceeds the number of trees.                  *)
(***************************************************************************)
C27_CursorOperations ==
    /\ [](\A c \in LiveCursors :
            /\ c.pos <= Len(c.tokens)
            /\ \A ty \in CursorTypes :
                LET matches == c.pos < Len(c.tokens) /\ TreeTy(c.tokens[c.pos + 1]) = ty
                    advanced == [tokens |-> c.tokens, pos |-> c.pos + 1]
                    opt == pop_if(c, ty)
                    res == pop_expect(c, ty)
                IN /\ peek_is(c, ty) = matches
                   /\ IF matches
                      THEN /\ opt.some
                           /\ opt.tree = c.tokens[c.pos + 1]
                           /\ opt.cur = advanced
                           /\ res.res = Ok(c.tokens[c.pos + 1])
                           /\ res.cur = advanced
                      ELSE /\ ~opt.some
                           /\ opt.cur = c
                           /\ res.res = Err("Unsynced")
                           /\ res.cur = c)
    /\ [][/\ pos' >= pos
          /\ args_cursor'.tokens = args_cursor.tokens
                 => args_cursor'.pos >= args_cursor.pos]_vars

\* parse_fn has popped `fn`, a name and a parenthesis node, and pop_if
\* found no arrow: the cursor stands on the fourth tree of the declaration.
C27_Witness ==
    /\ pc = "fn_block"
    /\ frame.name_ident.status = "Ok"
    /\ frame.args.status = "Ok"
    /\ frame.return_ty = Ok(<<>>)
    /\ ~is_eof(Outer)

(***************************************************************************)
(* C28.  When lexing the source yields diagnostics, parse_source returns   *)
(* exactly that diagnostic list, the same diagnostics in the same order,   *)
(* and runs no parser production.                                          *)
(***************************************************************************)
C28_LexDiagnosticsPropagate ==
    lex_result = "Err" =>
        /\ errors # <<>>
        /\ ParserUntouched
        /\ pc \in {"lex_source_ret", "done"}
        /\ pc = "done" => result = [tag |-> "Err", diagnostics |-> errors]

\* parse_source has returned the two diagnostics of the lexer.
C28_Witness ==
    /\ pc = "done"
    /\ lex_result = "Err"
    /\ Len(errors) = 2
    /\ result = [tag |-> "Err", diagnostics |-> errors]

(***************************************************************************)
(* Vocabulary of the rendering claims.                                     *)
(***************************************************************************)
\* A render call has been made.
HasRendered == rendered.result.tag # "none"

\* The source a span lies in.
SourceOf(span) == sources[span.start.src_id + 1]

\* The span touches more than one line.
MultiLine(span) ==
    line_of(SourceOf(span), span.start) # line_of(SourceOf(span), span.end)

\* Two spans have a byte in common.
Overlap(a, b) ==
    /\ a.start.src_id = b.start.src_id
    /\ a.start.byte < b.end.byte
    /\ b.start.byte < a.end.byte

\* The parts i of d whose span touches more than one line.
MultiLineParts(d) == {i \in DOMAIN d.parts : MultiLine(d.parts[i].span)}

\* The pairs of parts of d whose spans overlap.
OverlappingParts(d) ==
    {ij \in (DOMAIN d.parts) \X (DOMAIN d.parts) :
        /\ ij[1] < ij[2]
        /\ Overlap(d.parts[ij[1]].span, d.parts[ij[2]].span)}

\* The lines of one kind among the written ones, in the order written.
Written(out, kind) ==
    LET at == {i \in DOMAIN out : out[i].written = kind} IN
    [k \in 1..Cardinality(at) |->
        out[CHOOSE i \in at : Cardinality({j \in at : j < i}) = k - 1]]

\* The place of part i of d in ascending order of the start offset, parts
\* of equal start offsets in the order they were added.
Rank(d, i) ==
    1 + Cardinality({j \in DOMAIN d.parts :
                       \/ sort_key(d.parts[j]) < sort_key(d.parts[i])
                       \/ sort_key(d.parts[j]) = sort_key(d.parts[i]) /\ j < i})

(***************************************************************************)
(* C29.  Rendering fails an assertion, instead of producing output, for    *)
(* every diagnostic that has a part whose span touches more than one line  *)
(* and for every diagnostic that has two parts whose spans overlap.        *)
(* Violated: overlapping parts on one line are rendered like any others.   *)
(***************************************************************************)
C29_RenderRejects ==
    (/\ HasRendered
     /\ MultiLineParts(rendered.diag) # {} \/ OverlappingParts(rendered.diag) # {})
        => (rendered.result = Panicked /\ rendered.out = <<>>)

(***************************************************************************)
(* C30.  The parts of a diagnostic are rendered in ascending order of the  *)
(* byte offset of their span's start, whatever order they were added in,   *)
(* and parts with equal start offsets keep their insertion order;          *)
(* rendering leaves the diagnostic's own part list unchanged.              *)
(***************************************************************************)
C30_PartsInStartOrder ==
    /\ [](HasRendered =>
            LET d == rendered.diag
                positions == Written(rendered.out, "source_pos")
                highlights == Written(rendered.out, "highlight")
            IN \A i \in DOMAIN d.parts :
                LET span == d.parts[i].span
                    r == Rank(d, i)
                IN /\ r \in DOMAIN positions =>
                        /\ positions[r].line = line_of(SourceOf(span), span.start).value
                        /\ positions[r].col = col_of(SourceOf(span), span.start).value
                   /\ r \in DOMAIN highlights =>
                        /\ highlights[r].msg = d.parts[i].help
                        /\ highlights[r].offset
                               = col_of(SourceOf(span), span.start).value - 1)
    /\ [][rendered' # rendered => (diag' = diag /\ rendered'.diag = diag)]_vars

\* Two parts that start at the same offset, the second added with another
\* annotation, have been rendered in full.
C30_Witness ==
    /\ rendered.result = Returned("Ok")
    /\ Len(rendered.diag.parts) = 2
    /\ sort_key(rendered.diag.parts[1]) = sort_key(rendered.diag.parts[2])
    /\ rendered.diag.parts[1].help # rendered.diag.parts[2].help
    /\ Len(Written(rendered.out, "highlight")) = 2

\* The parts of d in the order of their Rank.
InRankOrder(d) ==
    [r \in DOMAIN d.parts |-> d.parts[CHOOSE i \in DOMAIN d.parts : Rank(d, i) = r]]

\* The characters of the line of src that position p is on, the newline
\* that ends the line left out.
LineText(src, p) ==
    LET line == line_of(src, p).value
        first == IF line = 1 THEN 0 ELSE src.newlines[line - 1] + 1
        inside == {i \in DOMAIN src.text :
                     /\ first <= ByteStart(src.text, i)
                     /\ ByteStart(src.text, i) < src.newlines[line]}
    IN [k \in 1..Cardinality(inside) |->
           src.text[CHOOSE i \in inside : Cardinality({j \in inside : j < i}) = k - 1]]

\* Line k of the four lines written for a part.
IsLineOfPart(l, k, part) ==
    LET src == SourceOf(part.span) IN
    CASE k = 1 -> /\ l.written = "source_pos"
                  /\ l.line = line_of(src, part.span.start).value
                  /\ l.col = col_of(src, part.span.start).value
      [] k = 2 -> l.written = "padding"
      [] k = 3 -> /\ l.written = "code"
                  /\ l.line = line_of(src, part.span.start).value
                  /\ l.text = LineText(src, part.span.start)
      [] k = 4 -> /\ l.written = "highlight"
                  /\ l.msg = part.help

(***************************************************************************)
(* C31.  In the line sequence rendered for a diagnostic, no padding line   *)
(* directly follows a highlight line and no two padding lines are          *)
(* adjacent: for n parts the output after the `error:` line is, per part   *)
(* in sorted order, one position line, one padding line, one code line     *)
(* and one highlight line.                                                 *)
(***************************************************************************)
C31_PaddingCollapsed ==
    HasRendered =>
        LET out == rendered.out
            parts == InRankOrder(rendered.diag)
        IN /\ \A i \in 2..Len(out) :
                out[i].written = "padding"
                    => out[i - 1].written \notin {"highlight", "padding"}
           /\ \A i \in 2..Len(out) :
                /\ ((i - 2) \div 4) + 1 \in DOMAIN parts
                /\ IsLineOfPart(out[i], ((i - 2) % 4) + 1, parts[((i - 2) \div 4) + 1])
           /\ out # <<>> => out[1] = [written |-> "error", msg |-> rendered.diag.msg]
           /\ rendered.result = Returned("Ok") => Len(out) = 1 + 4 * Len(parts)

\* Two parts have been rendered in full, the one added last first: nine
\* lines, with the second position line right behind the first highlight.
C31_Witness ==
    /\ rendered.result = Returned("Ok")
    /\ Len(rendered.diag.parts) = 2
    /\ sort_key(rendered.diag.parts[2]) < sort_key(rendered.diag.parts[1])
    /\ Len(rendered.out) = 9
    /\ rendered.out[5].written = "highlight"
    /\ rendered.out[6].written = "source_pos"

\* The number of characters of the text of span.
CharCount(span) ==
    LET t == SourceOf(span).text IN
    Cardinality({i \in DOMAIN t :
                   /\ span.start.byte <= ByteStart(t, i)
                   /\ ByteStart(t, i) < span.end.byte})

\* The diagnostic rendered has one part, and it marks one character at
\* line 2, column 5 of `a.fern`.
OneCharAtLine2Col5 ==
    /\ HasRendered
    /\ Len(rendered.diag.parts) = 1
    /\ LET span == rendered.diag.parts[1].span IN
       /\ SourceOf(span).filename = "a.fern"
       /\ CharCount(span) = 1
       /\ line_of(SourceOf(span), span.start) = Returned(2)
       /\ col_of(SourceOf(span), span.start) = Returned(5)

(***************************************************************************)
(* C32.  In a rendered highlight line the number of carets equals the      *)
(* number of characters (not bytes) of the highlighted span's text and     *)
(* the number of spaces between the gutter bar and the first caret equals  *)
(* col_of(span start) - 1; for a one-character span at line 2, column 5    *)
(* of `a.fern` the position line reads `--> a.fern:2:5` and the caret      *)
(* line has exactly one caret after 4 spaces.                              *)
(***************************************************************************)
C32_CaretsAndOffset ==
    /\ HasRendered =>
          LET d == rendered.diag
              highlights == Written(rendered.out, "highlight")
          IN \A i \in DOMAIN d.parts :
               Rank(d, i) \in DOMAIN highlights =>
                  /\ highlights[Rank(d, i)].carets = CharCount(d.parts[i].span)
                  /\ highlights[Rank(d, i)].offset
                        = col_of(SourceOf(d.parts[i].span), d.parts[i].span.start).value - 1
    /\ OneCharAtLine2Col5 =>
          /\ rendered.result = Returned("Ok")
          /\ Len(rendered.out) = 5
          /\ rendered.out[2].written = "source_pos"
          /\ rendered.out[2].filename = "a.fern"
          /\ rendered.out[2].line = 2
          /\ rendered.out[2].col = 5
          /\ rendered.out[5].written = "highlight"
          /\ rendered.out[5].carets = 1
          /\ rendered.out[5].offset = 4

\* The one character at line 2, column 5 has been rendered.
C32_Witness ==
    /\ OneCharAtLine2Col5
    /\ rendered.result = Returned("Ok")
    /\ rendered.out[5].carets = 1

\* The number of decimal digits of a line number.
Digits(n) == CHOOSE k \in 1..4 : 10 ^ (k - 1) <= n /\ n < 10 ^ k

\* The largest of a set of numbers, 0 for the empty set.
Largest(S) == IF S = {} THEN 0 ELSE CHOOSE m \in S : \A n \in S : n <= m

\* The line numbers of the code lines of d: the lines its parts start on.
CodeLineNumbers(d) ==
    {line_of(SourceOf(d.parts[i].span), d.parts[i].span.start).value :
        i \in DOMAIN d.parts}

(***************************************************************************)
(* C33.  The gutter width used for every line of one rendered diagnostic   *)
(* is the same value, the largest number of decimal digits of any line     *)
(* number shown in a code line of that diagnostic (0 when the diagnostic   *)
(* has no parts); it is computed once and every line-number prefix and     *)
(* every non-code line is padded to it.                                    *)
(***************************************************************************)
C33_GutterWidth ==
    /\ max_gutter_width(<<>>) = 0
    /\ (HasRendered /\ rendered.out # <<>>) =>
          LET out == rendered.out
              width == Largest({Digits(n) : n \in CodeLineNumbers(rendered.diag)})
              shown == {out[i].line : i \in {j \in DOMAIN out : out[j].written = "code"}}
          IN /\ \A i \in 2..Len(out) : out[i].gw = width
             /\ rendered.diag.parts = <<>> => (width = 0 /\ Len(out) = 1)
             /\ rendered.result = Returned("Ok")
                   => width = Largest({Digits(n) : n \in shown})

\* A part on line 2 and a part on line 10 have been rendered: the lines of
\* the first are padded to the two digits of the second.
C33_Witness ==
    /\ rendered.result = Returned("Ok")
    /\ CodeLineNumbers(rendered.diag) = {2, 10}
    /\ rendered.out[2].gw = 2
    /\ rendered.out[4].written = "code"
    /\ rendered.out[4].line = 2
    /\ rendered.out[4].gw = 2

(***************************************************************************)
(* C34.  A function declaration is parsed successfully only when a         *)
(* curly-brace block node follows its argument list and optional return    *)
(* type, as the grammar `fn_decl ::= FN IDENT fn_args (R_ARROW type)?      *)
(* block` requires: parse_block fails with a recoverable failure,          *)
(* consuming nothing, when the current tree is not a curly-brace node,     *)
(* and parse_fn then yields no FnDeclAst.                                  *)
(* Violated: parse_block drops the result of pop_expect and returns Ok.    *)
(***************************************************************************)
C34_BlockRequired ==
    [][(pc = "fn_block" /\ ~peek_is(Outer, Ty("CurlyBrackets")))
          => /\ frame'.body = Err("Unsynced")
             /\ pos' = pos
             /\ decl'.status # "Ok"]_vars

(***************************************************************************)
(* Vocabulary of the claims on the lexer's output as a whole.              *)
(***************************************************************************)
\* The scan is under way: get_tokens has not returned.
Scanning ==
    pc \in {"scan", "comment_test", "comment_pop", "digits", "ident", "unwind"}

\* get_tokens has returned: tokens is the lexer's output.
ScanDone == ~Scanning /\ pc # "source_map"

RECURSIVE LeafSeq(_)
\* The leaves of a list of trees in a depth-first, left-to-right walk.
LeafSeq(toks) ==
    IF toks = <<>> THEN <<>>
    ELSE (IF Head(toks).kind = "Leaf" THEN <<Head(toks)>>
          ELSE LeafSeq(Head(toks).children))
         \o LeafSeq(Tail(toks))

\* The end-of-file leaf of the text.
EOFLeaf == Leaf(Ty("EOF"), Span(ByteLen(text), ByteLen(text)))

(***************************************************************************)
(* C35.  Every lexer output contains exactly one end-of-file leaf: it is   *)
(* the last element of the top-level sequence, its span is empty and sits  *)
(* at text.length, and no end-of-file leaf ever appears among the          *)
(* children of a node (so the parser's top-level cursor reaches the        *)
(* end-of-file leaf before its position reaches the end of the sequence,   *)
(* while sub-cursors over node children never see one).                    *)
(***************************************************************************)
C35_OneEOFLeaf ==
    /\ Scanning => \A l \in AllLeaves : l.ty # Ty("EOF")
    /\ ScanDone =>
          LET leaves == LeafSeq(tokens) IN
          /\ tokens # <<>>
          /\ Last(tokens) = EOFLeaf
          /\ {i \in DOMAIN leaves : leaves[i].ty = Ty("EOF")} = {Len(leaves)}
          /\ \A n \in NodesOf(tokens) :
                \A i \in DOMAIN n.children : TreeTy(n.children[i]) # Ty("EOF")
          /\ pos < Len(tokens)
          /\ \A i \in DOMAIN args_cursor.tokens :
                TreeTy(args_cursor.tokens[i]) # Ty("EOF")

\* A sub-cursor stands at the end of the children of a parenthesis node,
\* and the outer cursor has the end-of-file leaf still ahead of it.
C35_Witness ==
    /\ pc = "args_end"
    /\ args_cursor.tokens # <<>>
    /\ is_eof(args_cursor)
    /\ ~is_eof(Outer)
    /\ Last(tokens) = EOFLeaf

(***************************************************************************)
(* C36.  In a depth-first, left-to-right walk of any lexer output, the     *)
(* spans of the leaf tokens are strictly ascending by start offset and     *)
(* pairwise non-overlapping, every leaf span except the end-of-file leaf   *)
(* is non-empty, and all spans lie within [0, text.length].                *)
(***************************************************************************)
C36_LeafSpansAscend ==
    ScanDone =>
        LET leaves == LeafSeq(tokens) IN
        /\ \A i \in DOMAIN leaves, j \in DOMAIN leaves :
              i < j => /\ leaves[i].span.start < leaves[j].span.start
                       /\ leaves[i].span.end <= leaves[j].span.start
        /\ \A i \in DOMAIN leaves :
              /\ 0 <= leaves[i].span.start
              /\ leaves[i].span.start <= leaves[i].span.end
              /\ leaves[i].span.end <= ByteLen(text)
              /\ leaves[i].ty # Ty("EOF") => leaves[i].span.start < leaves[i].span.end
        /\ \A n \in NodesOf(tokens) :
              /\ 0 <= n.left.start /\ n.left.start < n.left.end
              /\ n.left.end <= n.right.start
              /\ n.right.start < n.right.end /\ n.right.end <= ByteLen(text)

\* The output holds a node with a leaf inside, a leaf before it and a
\* leaf after it besides the end-of-file leaf.
C36_Witness ==
    /\ ScanDone
    /\ Len(LeafSeq(tokens)) >= 4
    /\ \E i \in DOMAIN tokens :
          /\ 1 < i /\ i + 1 < Len(tokens)
          /\ tokens[i].kind = "Node"
          /\ tokens[i].children # <<>>
          /\ tokens[i - 1].kind = "Leaf"
          /\ tokens[i + 1].kind = "Leaf"

(***************************************************************************)
(* C37.  Throughout a lexer scan the cursor satisfies span_offset +        *)
(* span_len = byte_offset with byte_offset on a character boundary and     *)
(* never decreasing, so that for every input (multi-byte characters        *)
(* included) no span built by the lexer triggers the character-boundary    *)
(* assertion of pos_from_byte or the start <= end assertion of Span::new.  *)
(***************************************************************************)
C37_CursorInvariant ==
    /\ [](Scanning =>
            /\ cursor.span_offset + cursor.span_len = cursor.byte_offset
            /\ cursor.byte_offset <= ByteLen(text)
            /\ IsCharBoundary(text, cursor.byte_offset)
            /\ pos_from_byte(sources[1], cursor.span_offset) # Panicked
            /\ Source_span(sources[1], cursor.span_offset,
                           cursor.span_offset + cursor.span_len) # Panicked)
    /\ [](\A l \in AllLeaves :
            Source_span(sources[1], l.span.start, l.span.end) # Panicked)
    /\ [][cursor'.byte_offset >= cursor.byte_offset]_vars

\* The scan has built the span of a two-byte character and stands behind
\* it with nothing pending.
C37_Witness ==
    /\ Scanning
    /\ cursor.byte_offset >= 2
    /\ cursor.span_len = 0
    /\ \E l \in AllLeaves :
          /\ l.span.end = cursor.byte_offset
          /\ l.span.start = cursor.byte_offset - 2
          /\ CharAtByte(text, l.span.start) = EAcute

====
